---- MODULE Spec2Model ----
(***************************************************************************)
(* Image-Classification-Service: API monetization (rate limiting, usage    *)
(* ledger, subscription quota), the Redis cache service behind it, the     *)
(* monetization middleware and the classification route it meters.         *)
(*                                                                         *)
(* Time is in seconds since the start of the current month (the model's    *)
(* epoch).  Money is in thousandths of a cost unit.  processing_time is in *)
(* tenths of a second.                                                     *)
(***************************************************************************)
EXTENDS Integers, Sequences, FiniteSets, TLC

(***************************************************************************)
(* Bounds of the model.  The tier figures of _get_pricing_config (10/100,  *)
(* 60/1000, ... requests per minute/hour, 1000..500000 included requests)  *)
(* and the 10000-entry cap of usage_logs are scaled down; the subscription *)
(* record carries its own copy of the limits, which is what the code reads.*)
(***************************************************************************)
RateLimitPerMinute == 2
RateLimitPerHour == 3
IncludedRequests == 2
UsageLogCap == 3
MaxTicks == 3
MaxAdvances == 1
MaxCalls == 4
MaxGrants == 4
MaxProcs == 3
ClockStep == 40
MaxPuts == 3
MaxClassify == 2
MaxStreamCalls == 5
MaxFrames == 1

(***************************************************************************)
(* Program constants.                                                      *)
(***************************************************************************)
MINUTE_TTL == 60
HOUR_TTL == 3600
API_KEY_TTL == 7200
SUBSCRIPTION_TTL == 3600
LARGE_REQUEST == 1048576
LONG_PROCESSING == 50
CLASSIFICATION_TTL == 3600
HTTP_401_UNAUTHORIZED == 401
HTTP_429_TOO_MANY_REQUESTS == 429
HTTP_500_INTERNAL_SERVER_ERROR == 500

VARIABLES
    now,                \* wall clock, datetime.utcnow() and the Redis clock
    ticks,              \* number of clock advances so far (bounds the run)
    redis,              \* the Redis server: key -> [val, exp]
    redis_up,           \* whether the Redis server answers
    monetization_cache, \* monetization_service.cache_service (a CacheService)
    cache_service,      \* the global cache_service instance (a CacheService)
    subscriptions,      \* monetization_service.subscriptions
    api_keys,           \* monetization_service.api_keys
    usage_logs,         \* monetization_service.usage_logs
    next_id,            \* source of fresh uuids / api keys
    last,               \* the last handler call: its arguments and return value
    window,             \* observer: per key, what the calls of its current buckets returned
    ledger,             \* observer: the entries successful log_api_usage calls appended
    pc,                 \* concurrent check_rate_limits: position of each request task
    loc,                \* concurrent check_rate_limits: locals of each request task
    frameworks,         \* the ML frameworks whose import succeeded (*_AVAILABLE)
    settings,           \* app.core.config.settings, the part the services read
    classification_service, \* the ClassificationService instance
    puts,               \* observer: per cache key, the last result stored under it
    active_streams,     \* realtime_processor.active_streams: stream_id -> session
    sessions,           \* the stream session dicts ever created, by identity
    tasks,              \* the asyncio tasks running _process_webcam_stream
    stops,              \* the stop_stream calls in flight
    minute_calls,       \* RateLimitMiddleware.minute_calls: client -> times of calls
    hour_calls,         \* RateLimitMiddleware.hour_calls
    last_cleanup,       \* RateLimitMiddleware.last_cleanup
    users,              \* the users table: id -> [is_active]
    user_sessions,      \* the user_sessions table, in insertion order
    spent,              \* observer: the refresh tokens that were used or revoked
    forwarded,          \* observer: client id -> times of the requests passed to call_next
    redis_writable      \* Redis executes write commands (it is not out of memory or read-only)

service_vars == << frameworks, settings, classification_service, puts >>

stream_vars == << active_streams, sessions, tasks, stops >>

limiter_vars == << minute_calls, hour_calls, last_cleanup, forwarded >>

auth_vars == << users, user_sessions, spent >>

security_vars == << limiter_vars, auth_vars, redis_writable >>

vars == << now, ticks, redis, redis_up, monetization_cache, cache_service,
           subscriptions, api_keys, usage_logs, next_id, last, window,
           ledger, pc, loc, service_vars, stream_vars, security_vars >>

None == [none |-> TRUE]

Max(a, b) == IF a >= b THEN a ELSE b

RECURSIVE SumCost(_)
SumCost(s) == IF s = << >> THEN 0 ELSE Head(s).cost + SumCost(Tail(s))

(***************************************************************************)
(* Python conversions.  json.dumps / json.loads and str / int are modelled *)
(* as wrapping and unwrapping, so that reading a value that was never      *)
(* encoded, or decoding once too often, is an error TLC reports.           *)
(***************************************************************************)
json_dumps(v) == [json |-> v]
json_loads(s) == s.json
py_str(n) == [str |-> n]
py_int(s) == s.str

(***************************************************************************)
(* strftime('%Y%m%d%H%M') and strftime('%Y%m%d%H') of current_time: the    *)
(* minute and the hour the instant falls in.                               *)
(***************************************************************************)
MinuteBucket(t) == t \div 60
HourBucket(t) == t \div 3600

ApiKeyCacheKey(k) == [kind |-> "api_key", id |-> k, bucket |-> 0]
SubscriptionCacheKey(s) == [kind |-> "subscription", id |-> s, bucket |-> 0]
minute_key(k, t) == [kind |-> "rate_limit_minute", id |-> k, bucket |-> MinuteBucket(t)]
hour_key(k, t) == [kind |-> "rate_limit_hour", id |-> k, bucket |-> HourBucket(t)]

(***************************************************************************)
(* CacheService (cache_service.py).  A CacheService is [enabled,           *)
(* redis_client]; redis_client is TRUE once connect() has built a client.  *)
(* Every Redis exception is caught: get answers None, set answers False.   *)
(***************************************************************************)
CacheAvailable(cs) == cs.enabled /\ cs.redis_client /\ redis_up

\* CacheService.connect: the cache service after the call
CacheConnect(cs) ==
    IF ~cs.enabled THEN cs
    ELSE IF redis_up THEN [enabled |-> TRUE, redis_client |-> TRUE]
    ELSE [enabled |-> FALSE, redis_client |-> TRUE]

\* Redis GET: the stored string, unless the key is absent or has expired
RedisGet(store, key) ==
    IF key \in DOMAIN store /\ store[key].exp > now THEN store[key].val ELSE None

\* Redis SETEX
RedisSetex(store, key, ttl, val) ==
    [k \in DOMAIN store \cup {key} |->
        IF k = key THEN [val |-> val, exp |-> now + ttl] ELSE store[k]]

\* a plausible slip: the store is read whatever the state of the service
CacheGet_unguarded(cs, store, key) ==
    IF RedisGet(store, key) # None THEN json_loads(RedisGet(store, key)) ELSE None

\* CacheService.get
CacheGet(cs, store, key) ==
    IF ~cs.enabled \/ ~cs.redis_client THEN None
    ELSE IF ~redis_up THEN None
    ELSE IF RedisGet(store, key) # None THEN json_loads(RedisGet(store, key))
    ELSE None

\* CacheService.set: the Redis contents after the call
CacheSet(cs, store, key, value, ttl) ==
    IF ~cs.enabled \/ ~cs.redis_client THEN store
    ELSE IF ~redis_up \/ ~redis_writable THEN store
    ELSE RedisSetex(store, key, ttl, json_dumps(value))

(***************************************************************************)
(* Python dictionaries returned by the handlers are records that carry     *)
(* only the keys the code puts in them; d.get(f) of a missing key is None. *)
(***************************************************************************)
Has(d, f) == f \in DOMAIN d
DictGet(d, f) == IF f \in DOMAIN d THEN d[f] ELSE None
\* truthiness of d.get(f) for a flag
Truthy(d, f) == f \in DOMAIN d /\ d[f] = TRUE

(***************************************************************************)
(* MonetizationService.validate_api_key (monetization_service.py 272-326). *)
(* Answers [res |-> the returned dict, redis |-> Redis after the call].    *)
(***************************************************************************)
\* the key record the call works on: the cached copy, else the stored one
validate_key_record(store, k) ==
    LET cached_key == CacheGet(monetization_cache, store, ApiKeyCacheKey(k))
    IN  IF cached_key # None THEN json_loads(cached_key)
        ELSE IF k \in DOMAIN api_keys THEN api_keys[k]
        ELSE None

validate_api_key(store, k) ==
    LET cached_key == CacheGet(monetization_cache, store, ApiKeyCacheKey(k))
        key_record == validate_key_record(store, k)
        store1 == IF cached_key = None /\ key_record # None
                  THEN CacheSet(monetization_cache, store, ApiKeyCacheKey(k),
                                json_dumps(key_record), API_KEY_TTL)
                  ELSE store
    IN  IF key_record = None
        THEN [res |-> [valid |-> FALSE, error |-> "Invalid API key"], redis |-> store]
        ELSE IF key_record.status # "active"
        THEN [res |-> [valid |-> FALSE, error |-> "API key is not active"],
              redis |-> store1]
        ELSE IF key_record.subscription_id \notin DOMAIN subscriptions
        THEN [res |-> [valid |-> FALSE, error |-> "Associated subscription not found"],
              redis |-> store1]
        ELSE IF subscriptions[key_record.subscription_id].status # "active"
        THEN [res |-> [valid |-> FALSE, error |-> "Subscription is not active"],
              redis |-> store1]
        ELSE [res |-> [valid |-> TRUE,
                       key_record |-> key_record,
                       subscription |-> subscriptions[key_record.subscription_id],
                       subscription_id |-> key_record.subscription_id,
                       user_id |-> key_record.user_id,
                       rate_limits |->
                           subscriptions[key_record.subscription_id].rate_limits],
              redis |-> store1]

(***************************************************************************)
(* MonetizationService.check_rate_limits (557-632).  The counters are read *)
(* with cache get and written back with cache set.                         *)
(***************************************************************************)
\* the count a window key holds, as the code reads it
\* a plausible slip: a read that failed counts as a limit reached
read_count_failing_closed(store, key) ==
    LET c == CacheGet(monetization_cache, store, key)
    IN  IF c # None THEN py_int(c) ELSE RateLimitPerHour

read_count(store, key) ==
    LET c == CacheGet(monetization_cache, store, key)
    IN  IF c # None THEN py_int(c) ELSE 0

\* a plausible slip: the hour counter written back as it was read
increment_counters_hour_stale(store, k, current_time, minute_count, hour_count) ==
    LET s1 == CacheSet(monetization_cache, store, minute_key(k, current_time),
                       py_str(minute_count + 1), MINUTE_TTL)
    IN  CacheSet(monetization_cache, s1, hour_key(k, current_time),
                 py_str(hour_count), HOUR_TTL)

\* lines 613-615: Increment counters
increment_counters(store, k, current_time, minute_count, hour_count) ==
    LET s1 == CacheSet(monetization_cache, store, minute_key(k, current_time),
                       py_str(minute_count + 1), MINUTE_TTL)
    IN  CacheSet(monetization_cache, s1, hour_key(k, current_time),
                 py_str(hour_count + 1), HOUR_TTL)

\* a plausible slip: > for >= in the two comparisons
rate_decision_off_by_one(subscription, minute_count, hour_count) ==
    IF minute_count > subscription.rate_limits.per_minute THEN "minute"
    ELSE IF hour_count > subscription.rate_limits.per_hour THEN "hour"
    ELSE "allowed"

\* a plausible slip: the hour window checked first
rate_decision_hour_first(subscription, minute_count, hour_count) ==
    IF hour_count >= subscription.rate_limits.per_hour THEN "hour"
    ELSE IF minute_count >= subscription.rate_limits.per_minute THEN "minute"
    ELSE "allowed"

\* a plausible slip: the monthly quota enforced as a hard limit
rate_decision_hard_quota(subscription, minute_count, hour_count) ==
    IF subscription.used_requests >= subscription.included_requests THEN "hour"
    ELSE IF minute_count >= subscription.rate_limits.per_minute THEN "minute"
    ELSE IF hour_count >= subscription.rate_limits.per_hour THEN "hour"
    ELSE "allowed"

\* lines 590 and 604: which limit, if any, denies the request
rate_decision(subscription, minute_count, hour_count) ==
    IF minute_count >= subscription.rate_limits.per_minute THEN "minute"
    ELSE IF hour_count >= subscription.rate_limits.per_hour THEN "hour"
    ELSE "allowed"

check_rate_limits(store, k, current_time) ==
    LET key_validation == validate_api_key(store, k)
        store1 == key_validation.redis
        subscription == key_validation.res.subscription
        rate_limits == subscription.rate_limits
        minute_count == read_count(store1, minute_key(k, current_time))
        hour_count == read_count(store1, hour_key(k, current_time))
        decision == rate_decision(subscription, minute_count, hour_count)
    IN  IF ~key_validation.res.valid
        THEN [res |-> [allowed |-> FALSE, error |-> key_validation.res.error],
              redis |-> store1]
        ELSE IF decision = "minute"
        THEN [res |-> [allowed |-> FALSE,
                       error |-> "Per-minute rate limit exceeded",
                       limit |-> rate_limits.per_minute,
                       current |-> minute_count,
                       reset_time |-> current_time + 60],
              redis |-> store1]
        ELSE IF decision = "hour"
        THEN [res |-> [allowed |-> FALSE,
                       error |-> "Per-hour rate limit exceeded",
                       limit |-> rate_limits.per_hour,
                       current |-> hour_count,
                       reset_time |-> current_time + 3600],
              redis |-> store1]
        ELSE [res |-> [allowed |-> TRUE,
                       rate_limits |->
                           [per_minute |-> [limit |-> rate_limits.per_minute,
                                            remaining |-> rate_limits.per_minute
                                                          - minute_count - 1],
                            per_hour |-> [limit |-> rate_limits.per_hour,
                                          remaining |-> rate_limits.per_hour
                                                        - hour_count - 1]]],
              redis |-> increment_counters(store1, k, current_time,
                                           minute_count, hour_count)]

(***************************************************************************)
(* The world the service is constructed in.  subscriptions.json and        *)
(* api_keys.json hold one paying customer, one suspended customer, a       *)
(* revoked key and a key whose subscription is gone; ak_new is the key a   *)
(* create_subscription call will issue; ak_unknown was never issued.       *)
(***************************************************************************)
ApiKeyValues == {"ak_live", "ak_revoked", "ak_orphan", "ak_unpaid", "ak_new",
                 "ak_unknown"}

\* create_subscription 157-176: a subscription record
Subscription(sid, user, st, used) ==
    [subscription_id |-> sid,
     user_id |-> user,
     tier |-> "basic",
     status |-> st,
     included_requests |-> IncludedRequests,
     used_requests |-> used,
     overage_requests |-> Max(0, used - IncludedRequests),
     rate_limits |-> [per_minute |-> RateLimitPerMinute,
                      per_hour |-> RateLimitPerHour]]

\* _generate_api_key 235-246: a key record
KeyRecord(k, user, sid, st) ==
    [api_key |-> k,
     user_id |-> user,
     subscription_id |-> sid,
     status |-> st,
     last_used |-> None,
     total_requests |-> 0]

StoredApiKeys ==
    [k \in {"ak_live", "ak_revoked", "ak_orphan", "ak_unpaid"} |->
        CASE k = "ak_live" -> KeyRecord(k, "u1", "sub_1", "active")
          [] k = "ak_revoked" -> KeyRecord(k, "u1", "sub_1", "revoked")
          [] k = "ak_orphan" -> KeyRecord(k, "u3", "sub_gone", "active")
          [] k = "ak_unpaid" -> KeyRecord(k, "u2", "sub_2", "active")]

NoWindow == [minute |-> -1, minute_allowed |-> 0, minute_lost |-> FALSE,
             hour |-> -1, hour_allowed |-> 0]

Idle == [op |-> "none"]

StoredSubscriptions(used) ==
    [sid \in {"sub_1", "sub_2"} |->
        IF sid = "sub_1" THEN Subscription(sid, "u1", "active", used)
        ELSE Subscription(sid, "u2", "suspended", 0)]

(***************************************************************************)
(* ClassificationService: the model registry and the default model         *)
(* (classification_service.py 41-174 and 590-751).  self.models is a dict: *)
(* the model keeps its keys, in insertion order.  loadable is the set of   *)
(* models whose loading succeeds; every loader catches its own exception.  *)
(***************************************************************************)
Some(x) == [some |-> x]
OrElse(opt, d) == IF opt = None THEN d ELSE opt.some

Range(s) == {s[i] : i \in 1 .. Len(s)}

\* d[k] = v on a dict, as seen on its keys
DictPut(keys, k) == IF k \in Range(keys) THEN keys ELSE Append(keys, k)

\* del d[k]
DictDel(keys, k) == SelectSeq(keys, LAMBDA x : x # k)

\* lines 101-127: ResNet50 is built after MobileNetV2 was registered
_load_tensorflow_models(keys, loadable) ==
    IF "mobilenet_v2" \notin loadable THEN keys
    ELSE IF "resnet50" \notin loadable THEN DictPut(keys, "mobilenet_v2")
    ELSE DictPut(DictPut(keys, "mobilenet_v2"), "resnet50")

\* lines 129-151
_load_pytorch_models(keys, loadable) ==
    IF "resnet18_torch" \in loadable THEN DictPut(keys, "resnet18_torch") ELSE keys

\* lines 153-163
_initialize_google_vision(keys, loadable, cfg) ==
    IF cfg.GOOGLE_CLOUD_CREDENTIALS /\ "google_vision" \in loadable
    THEN DictPut(keys, "google_vision")
    ELSE keys

\* lines 165-174
_add_mock_model(keys) == DictPut(keys, "mock")

\* lines 55-90: the registry before the default is chosen
LoadedModels(fw, loadable, cfg) ==
    LET tf == IF "tensorflow" \in fw THEN _load_tensorflow_models(<< >>, loadable)
              ELSE << >>
        pt == IF "pytorch" \in fw THEN _load_pytorch_models(tf, loadable) ELSE tf
        gv == IF "google_vision" \in fw THEN _initialize_google_vision(pt, loadable, cfg)
              ELSE pt
    IN  _add_mock_model(gv)

\* lines 718-724
preferred_models ==
    << "mobilenet_v2", "resnet50", "resnet18_torch", "google_vision", "mock" >>

\* a plausible slip: the preference order walked from its end
_select_best_available_model_reversed(keys) ==
    IF \E i \in 1 .. Len(preferred_models) : preferred_models[i] \in Range(keys)
    THEN preferred_models[CHOOSE i \in 1 .. Len(preferred_models) :
             /\ preferred_models[i] \in Range(keys)
             /\ \A j \in (i + 1) .. Len(preferred_models) :
                    preferred_models[j] \notin Range(keys)]
    ELSE "mock"

\* lines 710-742
_select_best_available_model(keys) ==
    IF \E i \in 1 .. Len(preferred_models) : preferred_models[i] \in Range(keys)
    THEN preferred_models[CHOOSE i \in 1 .. Len(preferred_models) :
             /\ preferred_models[i] \in Range(keys)
             /\ \A j \in 1 .. (i - 1) : preferred_models[j] \notin Range(keys)]
    ELSE "mock"

\* str.lower on the values DEFAULT_MODEL takes here
lower(x) == IF x \in {"AUTO", "Auto"} THEN "auto" ELSE x

\* lines 691-708: the value given to _actual_default_model
_handle_auto_model_selection(keys, cfg) ==
    IF lower(cfg.DEFAULT_MODEL) = "auto" THEN _select_best_available_model(keys)
    ELSE IF cfg.DEFAULT_MODEL \in Range(keys) THEN cfg.DEFAULT_MODEL
    ELSE "mock"

\* model_info of the mock model (166-173); the built-in models have none
MockInfo == [custom |-> FALSE, model_type |-> "mock"]

\* __init__ and _initialize_models (41-99): the service after construction
_initialize_models(fw, loadable, cfg) ==
    [models |-> LoadedModels(fw, loadable, cfg),
     model_info |-> [n \in {"mock"} |-> MockInfo],
     _actual_default_model |->
         _handle_auto_model_selection(LoadedModels(fw, loadable, cfg), cfg)]

\* lines 744-751; _actual_default_model is a non-empty string once the
\* service is constructed
get_default_model(svc, cfg) ==
    IF svc._actual_default_model # "" THEN svc._actual_default_model
    ELSE cfg.DEFAULT_MODEL

\* load_custom_model (590-632): the service after the call
load_custom_model(svc, fw, model_id, model_type, load_ok) ==
    IF model_type \in {"tensorflow", "pytorch"} \cap fw /\ load_ok
    THEN [svc EXCEPT
             !.models = DictPut(@, "custom_" \o model_id),
             !.model_info = [n \in DOMAIN @ \cup {"custom_" \o model_id} |->
                                IF n = "custom_" \o model_id
                                THEN [custom |-> TRUE, model_type |-> model_type]
                                ELSE @[n]]]
    ELSE svc

\* unload_custom_model (634-653): the service after the call
unload_custom_model(svc, model_id) ==
    [svc EXCEPT
        !.models = DictDel(@, "custom_" \o model_id),
        !.model_info = [n \in DOMAIN @ \ {"custom_" \o model_id} |-> @[n]]]

\* the settings of a development installation and the service built on them
DEFAULT_CONFIDENCE_THRESHOLD == 100

DevelopmentSettings ==
    [DEFAULT_MODEL |-> "mock", GOOGLE_CLOUD_CREDENTIALS |-> FALSE,
     CONFIDENCE_THRESHOLD |-> DEFAULT_CONFIDENCE_THRESHOLD]

ServiceConstructed ==
    /\ frameworks = {}
    /\ settings = DevelopmentSettings
    /\ classification_service = _initialize_models({}, {}, DevelopmentSettings)
    /\ puts = << >>

\* RealTimeStreamProcessor.__init__ (realtime_stream.py 27-31)
StreamsConstructed ==
    /\ active_streams = << >>
    /\ sessions = << >>
    /\ tasks = << >>
    /\ stops = << >>

\* RateLimitMiddleware.__init__ (security.py 18-29) and the tables of a new
\* database
SecurityConstructed ==
    /\ minute_calls = << >>
    /\ hour_calls = << >>
    /\ last_cleanup = 0
    /\ users = << >>
    /\ user_sessions = << >>
    /\ spent = {}
    /\ forwarded = << >>
    /\ redis_writable = TRUE

\* the data files loaded, nothing called yet
Constructed ==
    /\ ServiceConstructed
    /\ StreamsConstructed
    /\ SecurityConstructed
    /\ now = 0
    /\ ticks = 0
    /\ redis = << >>
    /\ redis_up = TRUE
    /\ api_keys = StoredApiKeys
    /\ usage_logs = << >>
    /\ next_id = 1
    /\ last = Idle
    /\ window = [k \in ApiKeyValues |-> NoWindow]
    /\ ledger = << >>
    /\ pc = [p \in 1 .. MaxProcs |-> "idle"]
    /\ loc = [p \in 1 .. MaxProcs |-> None]

\* MonetizationService.__init__ 45-63 and CacheService.__init__ 17-19
Init ==
    /\ Constructed
    /\ \E e \in BOOLEAN :
          /\ monetization_cache = [enabled |-> e, redis_client |-> FALSE]
          /\ cache_service = [enabled |-> e, redis_client |-> FALSE]
    /\ \E used \in {0, IncludedRequests, IncludedRequests + 1} :
          subscriptions = StoredSubscriptions(used)

(***************************************************************************)
(* The environment: time passes (Redis drops what has expired), the Redis  *)
(* server stops answering and answers again, connect() is called.          *)
(***************************************************************************)
Advances == {ClockStep, HOUR_TTL}

Expire(store, t) == [k \in {x \in DOMAIN store : store[x].exp > t} |-> store[k]]

Tick(d) ==
    /\ ticks < MaxTicks
    /\ ticks' = ticks + 1
    /\ now' = now + d
    /\ redis' = Expire(redis, now + d)
    /\ UNCHANGED << redis_up, monetization_cache, cache_service, subscriptions,
                    api_keys, usage_logs, next_id, last, window, ledger,
                    pc, loc,
                    service_vars, stream_vars, security_vars >>

RedisFail ==
    /\ redis_up
    /\ redis_up' = FALSE
    /\ UNCHANGED << now, ticks, redis, monetization_cache, cache_service,
                    subscriptions, api_keys, usage_logs, next_id, last,
                    window, ledger, pc, loc,
                    service_vars, stream_vars, security_vars >>

RedisRecover ==
    /\ ~redis_up
    /\ redis_up' = TRUE
    /\ UNCHANGED << now, ticks, redis, monetization_cache, cache_service,
                    subscriptions, api_keys, usage_logs, next_id, last,
                    window, ledger, pc, loc,
                    service_vars, stream_vars, security_vars >>

\* CacheService.connect on monetization_service.cache_service
ConnectMonetizationCache ==
    /\ monetization_cache' = CacheConnect(monetization_cache)
    /\ monetization_cache' # monetization_cache
    /\ UNCHANGED << now, ticks, redis, redis_up, cache_service, subscriptions,
                    api_keys, usage_logs, next_id, last, window, ledger,
                    pc, loc,
                    service_vars, stream_vars, security_vars >>

(***************************************************************************)
(* What an observer of Redis sees under a window key.                      *)
(***************************************************************************)
StoredCount(store, key) ==
    IF key \in DOMAIN store /\ store[key].exp > now
    THEN py_int(json_loads(store[key].val))
    ELSE 0

\* the observer's record of key k's windows, brought to the buckets of instant t
WindowAt(w, t) ==
    [minute |-> MinuteBucket(t),
     minute_allowed |-> IF w.minute = MinuteBucket(t) THEN w.minute_allowed ELSE 0,
     minute_lost |-> IF w.minute = MinuteBucket(t) THEN w.minute_lost ELSE FALSE,
     hour |-> HourBucket(t),
     hour_allowed |-> IF w.hour = HourBucket(t) THEN w.hour_allowed ELSE 0]

\* one whole call of check_rate_limits(api_key), current_time defaulting to utcnow()
CheckRateLimits(k) ==
    /\ WindowAt(window[k], now).hour_allowed < MaxGrants
    /\ \E r \in {check_rate_limits(redis, k, now)},
          v \in {validate_api_key(redis, k)} :
       LET w == WindowAt(window[k], now)
           ok == CacheAvailable(monetization_cache)
       IN  /\ redis' = r.redis
           /\ last' = [op |-> "check_rate_limits",
                       api_key |-> k,
                       at |-> now,
                       valid |-> v.res.valid,
                       available |-> ok,
                       writable |-> redis_writable,
                       subscription |-> IF v.res.valid THEN v.res.subscription ELSE None,
                       res |-> r.res,
                       minute_count |-> read_count(v.redis, minute_key(k, now)),
                       hour_count |-> read_count(v.redis, hour_key(k, now)),
                       minute_before |-> StoredCount(redis, minute_key(k, now)),
                       minute_after |-> StoredCount(r.redis, minute_key(k, now)),
                       hour_before |-> StoredCount(redis, hour_key(k, now)),
                       hour_after |-> StoredCount(r.redis, hour_key(k, now)),
                       prior_minute |-> w.minute_allowed,
                       prior_hour |-> w.hour_allowed,
                       lost |-> w.minute_lost \/ ~ok]
           /\ window' = IF v.res.valid
                         THEN [window EXCEPT ![k] =
                                  [w EXCEPT !.minute_allowed =
                                                @ + (IF r.res.allowed THEN 1 ELSE 0),
                                            !.hour_allowed =
                                                @ + (IF r.res.allowed THEN 1 ELSE 0),
                                            !.minute_lost = @ \/ ~ok]]
                         ELSE window
    /\ UNCHANGED << now, ticks, redis_up, monetization_cache, cache_service,
                    subscriptions, api_keys, usage_logs, next_id, ledger,
                    pc, loc,
                    service_vars, stream_vars, security_vars >>

RateKeys == {"ak_live", "ak_unknown"}

NextRate ==
    \/ \E d \in Advances : Tick(d)
    \/ RedisFail
    \/ RedisRecover
    \/ ConnectMonetizationCache
    \/ \E k \in RateKeys : CheckRateLimits(k)

SpecRate == Init /\ [][NextRate]_vars

(***************************************************************************)
(* Claims about check_rate_limits, over its calls made one after another.  *)
(***************************************************************************)
LastCheck == last.op = "check_rate_limits"
LastValidCheck == LastCheck /\ last.valid
PerMinute == last.subscription.rate_limits.per_minute
PerHour == last.subscription.rate_limits.per_hour

C6_MinuteBeforeHour ==
    (LastValidCheck /\ last.minute_count >= PerMinute /\ last.hour_count >= PerHour) =>
        /\ ~last.res.allowed
        /\ last.res.error = "Per-minute rate limit exceeded"
        /\ last.res.limit = PerMinute
        /\ last.res.current = last.minute_count

C6_Witness ==
    /\ LastValidCheck
    /\ last.minute_count >= PerMinute
    /\ last.hour_count >= PerHour
    /\ last.res.error = "Per-minute rate limit exceeded"

\* C9: whatever used_requests is, a valid key whose minute and hour counts
\* are below their limits is allowed: the monthly quota never denies.
C9_SoftQuota ==
    (LastValidCheck /\ last.minute_count < PerMinute /\ last.hour_count < PerHour) =>
        last.res.allowed

C9_Witness ==
    /\ LastValidCheck
    /\ last.subscription.used_requests > last.subscription.included_requests
    /\ last.minute_count = 1
    /\ last.res.allowed

(***************************************************************************)
(* Concurrent requests.  Each request task runs check_rate_limits for the  *)
(* same key; a task gives up control at every await of a Redis round trip  *)
(* and nowhere else, so the code between two awaits is one step.  The      *)
(* cache is connected and Redis answers; the clock stays in one minute.    *)
(***************************************************************************)
Procs == 1 .. MaxProcs

InitConc ==
    /\ Constructed
    /\ monetization_cache = [enabled |-> TRUE, redis_client |-> TRUE]
    /\ cache_service = [enabled |-> TRUE, redis_client |-> TRUE]
    /\ subscriptions = StoredSubscriptions(0)

Unchanged_conc ==
    UNCHANGED << now, ticks, redis_up, monetization_cache, cache_service,
                 subscriptions, api_keys, usage_logs, next_id, last, ledger,
                 service_vars, stream_vars, security_vars >>

\* the task returns res
Return(p, res) ==
    /\ pc' = [pc EXCEPT ![p] = "done"]
    /\ loc' = [loc EXCEPT ![p] = [@ EXCEPT !.res = res]]
    /\ window' = IF Has(res, "allowed") /\ res.allowed
                 THEN [window EXCEPT ![loc[p].api_key] =
                          [WindowAt(@, loc[p].current_time) EXCEPT
                              !.minute_allowed = @ + 1, !.hour_allowed = @ + 1]]
                 ELSE window

\* lines 302-323 of validate_api_key, then check_rate_limits up to its
\* await of get(minute_key)
AfterKeyRecord(p, key_record) ==
    IF \/ key_record.status # "active"
       \/ key_record.subscription_id \notin DOMAIN subscriptions
       \/ subscriptions[key_record.subscription_id].status # "active"
    THEN Return(p, [allowed |-> FALSE, error |-> "invalid"])
    ELSE /\ pc' = [pc EXCEPT ![p] = "get_minute"]
         /\ loc' = [loc EXCEPT ![p] =
                [@ EXCEPT !.subscription = subscriptions[key_record.subscription_id]]]
         /\ UNCHANGED window

\* 573-578 and 285: the call starts and awaits get("api_key:...")
Begin(p, k) ==
    /\ pc[p] = "idle"
    /\ pc' = [pc EXCEPT ![p] = "validate_get"]
    /\ loc' = [loc EXCEPT ![p] =
           [api_key |-> k, current_time |-> now, key_record |-> None,
            subscription |-> None, minute_count |-> 0, hour_count |-> 0,
            res |-> None]]
    /\ UNCHANGED << redis, window >>
    /\ Unchanged_conc

\* 285-292: the cached key record arrives, or the stored one is looked up
ValidateGet(p) ==
    /\ pc[p] = "validate_get"
    /\ LET cached_key == CacheGet(monetization_cache, redis, ApiKeyCacheKey(loc[p].api_key))
       IN  IF cached_key # None
           THEN AfterKeyRecord(p, json_loads(cached_key))
           ELSE IF loc[p].api_key \notin DOMAIN api_keys
           THEN Return(p, [allowed |-> FALSE, error |-> "Invalid API key"])
           ELSE /\ pc' = [pc EXCEPT ![p] = "validate_set"]
                /\ loc' = [loc EXCEPT ![p] =
                       [@ EXCEPT !.key_record = api_keys[loc[p].api_key]]]
                /\ UNCHANGED window
    /\ UNCHANGED redis
    /\ Unchanged_conc

\* 295-299: the key record is cached
ValidateSet(p) ==
    /\ pc[p] = "validate_set"
    /\ redis' = CacheSet(monetization_cache, redis, ApiKeyCacheKey(loc[p].api_key),
                         json_dumps(loc[p].key_record), API_KEY_TTL)
    /\ AfterKeyRecord(p, loc[p].key_record)
    /\ Unchanged_conc

\* 587-600: minute_count arrives and is tested
GetMinute(p) ==
    /\ pc[p] = "get_minute"
    /\ LET minute_count == read_count(redis, minute_key(loc[p].api_key, loc[p].current_time))
       IN  IF minute_count >= loc[p].subscription.rate_limits.per_minute
           THEN Return(p, [allowed |-> FALSE,
                           error |-> "Per-minute rate limit exceeded",
                           limit |-> loc[p].subscription.rate_limits.per_minute,
                           current |-> minute_count])
           ELSE /\ pc' = [pc EXCEPT ![p] = "get_hour"]
                /\ loc' = [loc EXCEPT ![p] = [@ EXCEPT !.minute_count = minute_count]]
                /\ UNCHANGED window
    /\ UNCHANGED redis
    /\ Unchanged_conc

\* 601-614: hour_count arrives and is tested
GetHour(p) ==
    /\ pc[p] = "get_hour"
    /\ LET hour_count == read_count(redis, hour_key(loc[p].api_key, loc[p].current_time))
       IN  IF hour_count >= loc[p].subscription.rate_limits.per_hour
           THEN Return(p, [allowed |-> FALSE,
                           error |-> "Per-hour rate limit exceeded",
                           limit |-> loc[p].subscription.rate_limits.per_hour,
                           current |-> hour_count])
           ELSE /\ pc' = [pc EXCEPT ![p] = "set_minute"]
                /\ loc' = [loc EXCEPT ![p] = [@ EXCEPT !.hour_count = hour_count]]
                /\ UNCHANGED window
    /\ UNCHANGED redis
    /\ Unchanged_conc

\* 614: set(minute_key, str(minute_count + 1))
SetMinute(p) ==
    /\ pc[p] = "set_minute"
    /\ redis' = CacheSet(monetization_cache, redis,
                         minute_key(loc[p].api_key, loc[p].current_time),
                         py_str(loc[p].minute_count + 1), MINUTE_TTL)
    /\ pc' = [pc EXCEPT ![p] = "set_hour"]
    /\ UNCHANGED << loc, window >>
    /\ Unchanged_conc

\* 615-629: set(hour_key, str(hour_count + 1)) and the call returns allowed
SetHour(p) ==
    /\ pc[p] = "set_hour"
    /\ redis' = CacheSet(monetization_cache, redis,
                         hour_key(loc[p].api_key, loc[p].current_time),
                         py_str(loc[p].hour_count + 1), HOUR_TTL)
    /\ Return(p, [allowed |-> TRUE])
    /\ Unchanged_conc

ConcKeys == {"ak_live", "ak_revoked", "ak_unknown"}

NextConc ==
    \E p \in Procs :
        \/ \E k \in ConcKeys : Begin(p, k)
        \/ ValidateGet(p)
        \/ ValidateSet(p)
        \/ GetMinute(p)
        \/ GetHour(p)
        \/ SetMinute(p)
        \/ SetHour(p)

SpecConc == InitConc /\ [][NextConc]_vars

\* C2: with no call in flight, the stored minute counter of the key equals
\* the number of calls of that bucket that returned allowed=True, and at
\* most per_minute calls were allowed.
C2_NoUndercount ==
    (\A p \in Procs : pc[p] \in {"idle", "done"}) =>
        /\ StoredCount(redis, minute_key("ak_live", now))
               = WindowAt(window["ak_live"], now).minute_allowed
        /\ WindowAt(window["ak_live"], now).minute_allowed
               <= subscriptions["sub_1"].rate_limits.per_minute

(***************************************************************************)
(* The usage ledger and the subscription quota: log_api_usage (328-447),   *)
(* get_usage_analytics (449-555), get_billing_dashboard (691-748) and      *)
(* create_subscription (134-210).                                          *)
(***************************************************************************)
\* _get_pricing_config 124-131: complexity_multiplier in tenths
ServicePricing ==
    [s \in {"image_classification", "video_classification", "audio_classification",
            "batch_processing", "real_time_streaming", "custom_model_inference"} |->
        CASE s = "image_classification" -> [base_cost |-> 1, complexity_multiplier |-> 10]
          [] s = "video_classification" -> [base_cost |-> 3, complexity_multiplier |-> 15]
          [] s = "audio_classification" -> [base_cost |-> 2, complexity_multiplier |-> 12]
          [] s = "batch_processing" -> [base_cost |-> 1, complexity_multiplier |-> 8]
          [] s = "real_time_streaming" -> [base_cost |-> 5, complexity_multiplier |-> 20]
          [] s = "custom_model_inference" -> [base_cost |-> 2, complexity_multiplier |-> 13]]

\* lines 364-367
service_config(service_type) ==
    IF service_type \in DOMAIN ServicePricing
    THEN ServicePricing[service_type]
    ELSE [base_cost |-> 1, complexity_multiplier |-> 10]

\* the surcharges added instead of multiplied
cost_multiplier_additive(request_size, processing_time) ==
    100 + (IF processing_time > LONG_PROCESSING THEN 50 ELSE 0)
        + (IF request_size > LARGE_REQUEST THEN 20 ELSE 0)

\* lines 374-378, in hundredths
cost_multiplier(request_size, processing_time) ==
    LET long == IF processing_time > LONG_PROCESSING THEN 150 ELSE 100
    IN  IF request_size > LARGE_REQUEST THEN (long * 120) \div 100 ELSE long

\* line 380, in thousandths of a cost unit
calculated_cost(service_type, request_size, processing_time) ==
    service_config(service_type).base_cost
        * service_config(service_type).complexity_multiplier
        * cost_multiplier(request_size, processing_time)

\* datetime.isoformat and datetime.fromisoformat
isoformat(t) == [iso |-> t]
fromisoformat(x) == x.iso

\* line 386: api_key[:10] + "..."
masked(api_key) == [prefix |-> api_key]

\* lines 383-397
usage_entry(usage_id, t, api_key, key_record, subscription, service_type, endpoint, request_size, processing_time, success) ==
    [usage_id |-> usage_id,
     timestamp |-> isoformat(t),
     api_key |-> masked(api_key),
     user_id |-> key_record.user_id,
     subscription_id |-> subscription.subscription_id,
     service_type |-> service_type,
     endpoint |-> endpoint,
     request_size |-> request_size,
     processing_time |-> processing_time,
     success |-> success,
     cost |-> calculated_cost(service_type, request_size, processing_time),
     tier |-> subscription.tier]

\* a plausible slip: the oldest entries kept instead of the newest
truncate_logs_oldest(logs) ==
    IF Len(logs) > UsageLogCap THEN SubSeq(logs, 1, UsageLogCap) ELSE logs

\* lines 402-404: Keep only last 10000 entries
truncate_logs(logs) ==
    IF Len(logs) > UsageLogCap
    THEN SubSeq(logs, Len(logs) - UsageLogCap + 1, Len(logs))
    ELSE logs

\* a plausible slip: the overage computed from the count before the increment
update_subscription_usage_stale(subscription) ==
    [subscription EXCEPT
        !.used_requests = @ + 1,
        !.overage_requests =
            IF subscription.used_requests > subscription.included_requests
            THEN subscription.used_requests - subscription.included_requests
            ELSE @]

\* lines 408-413: Update subscription usage
update_subscription_usage(subscription) ==
    [subscription EXCEPT
        !.used_requests = @ + 1,
        !.overage_requests =
            IF subscription.used_requests + 1 > subscription.included_requests
            THEN subscription.used_requests + 1 - subscription.included_requests
            ELSE @]

\* log_api_usage: what it returns and what it leaves in the service and in Redis
log_api_usage(store, k, service_type, endpoint, request_size, processing_time, success, usage_id, t) ==
    LET v == validate_api_key(store, k)
    IN  IF ~v.res.valid
        THEN [res |-> [success |-> FALSE, error |-> v.res.error],
              redis |-> v.redis,
              subscriptions |-> subscriptions,
              api_keys |-> api_keys,
              usage_logs |-> usage_logs]
        ELSE
        LET key_record == v.res.key_record
            subscription == v.res.subscription
            sid == subscription.subscription_id
            entry == usage_entry(usage_id, t, k, key_record, subscription,
                                 service_type, endpoint, request_size,
                                 processing_time, success)
            logs1 == truncate_logs(Append(usage_logs, entry))
            sub1 == update_subscription_usage(subscription)
            subs1 == [subscriptions EXCEPT ![sid] = sub1]
        IN  IF k \notin DOMAIN api_keys
            THEN \* line 418 raises KeyError, caught at 443
                 [res |-> [success |-> FALSE, error |-> "Failed to log API usage"],
                  redis |-> v.redis,
                  subscriptions |-> subs1,
                  api_keys |-> api_keys,
                  usage_logs |-> logs1]
            ELSE
            LET keys1 == [api_keys EXCEPT ![k].last_used = isoformat(t),
                                          ![k].total_requests = @ + 1]
                s1 == CacheSet(monetization_cache, v.redis, SubscriptionCacheKey(sid),
                               json_dumps(sub1), SUBSCRIPTION_TTL)
                s2 == CacheSet(monetization_cache, s1, ApiKeyCacheKey(k),
                               json_dumps(keys1[k]), API_KEY_TTL)
            IN  [res |-> [success |-> TRUE,
                          usage_logged |-> TRUE,
                          cost |-> entry.cost,
                          remaining_requests |->
                              Max(0, sub1.included_requests - sub1.used_requests),
                          overage_requests |-> sub1.overage_requests],
                 redis |-> s2,
                 subscriptions |-> subs1,
                 api_keys |-> keys1,
                 usage_logs |-> logs1]

\* lines 467-471: the first subscription of the user, in the order of the dict
SubscriptionOrder == << "sub_1", "sub_2", "sub_new" >>

RECURSIVE first_subscription(_, _)
first_subscription(order, user_id) ==
    IF order = << >> THEN None
    ELSE IF Head(order) \in DOMAIN subscriptions
            /\ subscriptions[Head(order)].user_id = user_id
         THEN subscriptions[Head(order)]
         ELSE first_subscription(Tail(order), user_id)

\* now.replace(day=1, hour=0, ...): the clock never leaves the month it starts in
MonthStart(t) == 0

\* lines 477-501: is an entry logged at log_time in the period asked at instant t
in_period(period, t, log_time) ==
    CASE period = "last_month" ->
             MonthStart(t) - 31 * 86400 <= log_time /\ log_time < MonthStart(t)
      [] period = "last_7_days" -> log_time >= t - 7 * 86400
      [] OTHER -> log_time >= MonthStart(t)

\* lines 490-501
filtered_logs(logs, user_id, period, t) ==
    SelectSeq(logs, LAMBDA log :
        log.user_id = user_id /\ in_period(period, t, fromisoformat(log.timestamp)))

\* get_usage_analytics: reads only
get_usage_analytics(user_id, period, t) ==
    LET user_subscription == first_subscription(SubscriptionOrder, user_id)
        logs == filtered_logs(usage_logs, user_id, period, t)
    IN  IF user_subscription = None
        THEN [error |-> "No active subscription found"]
        ELSE [period |-> period,
              subscription_info |->
                  [tier |-> user_subscription.tier,
                   included_requests |-> user_subscription.included_requests,
                   used_requests |-> user_subscription.used_requests,
                   remaining_requests |->
                       Max(0, user_subscription.included_requests
                              - user_subscription.used_requests),
                   overage_requests |-> user_subscription.overage_requests],
              analytics |->
                  [total_requests |-> Len(logs),
                   successful_requests |->
                       Len(SelectSeq(logs, LAMBDA log : log.success)),
                   total_cost |-> SumCost(logs)]]

\* get_billing_dashboard: reads only
get_billing_dashboard(t) ==
    [overview |->
        [total_subscriptions |-> Cardinality(DOMAIN subscriptions),
         active_subscriptions |->
             Cardinality({s \in DOMAIN subscriptions :
                             subscriptions[s].status = "active"}),
         total_api_keys |-> Cardinality(DOMAIN api_keys),
         monthly_requests |->
             Len(SelectSeq(usage_logs, LAMBDA log :
                     fromisoformat(log.timestamp) >= MonthStart(t))),
         monthly_overage_requests |->
             LET active == {s \in DOMAIN subscriptions :
                               subscriptions[s].status = "active"}
                 Sum[S \in SUBSET active] ==
                     IF S = {} THEN 0
                     ELSE LET x == CHOOSE y \in S : TRUE
                          IN  subscriptions[x].overage_requests + Sum[S \ {x}]
             IN  Sum[active]]]

(***************************************************************************)
(* The billing specification: usage is logged, subscriptions are created,  *)
(* the analytics and the dashboard are read, time passes.                  *)
(***************************************************************************)
\* what a request hands to log_api_usage
UsageInputs ==
    { [service_type |-> "image_classification", endpoint |-> "/api/v1/classify",
       request_size |-> LARGE_REQUEST, processing_time |-> LONG_PROCESSING,
       success |-> FALSE],
      [service_type |-> "video_classification", endpoint |-> "/api/v1/video/classify",
       request_size |-> LARGE_REQUEST + 1, processing_time |-> LONG_PROCESSING + 1,
       success |-> TRUE] }

LogKeys == {"ak_live", "ak_new", "ak_unknown"}

Periods == {"current_month", "last_month", "last_7_days"}

InitLog ==
    /\ Constructed
    /\ \E e \in BOOLEAN :
          /\ monetization_cache = [enabled |-> e, redis_client |-> FALSE]
          /\ cache_service = [enabled |-> e, redis_client |-> FALSE]
    /\ subscriptions = StoredSubscriptions(0)

\* one whole call of log_api_usage
LogApiUsage(k, u) ==
    /\ next_id <= MaxCalls
    /\ \E r \in {log_api_usage(redis, k, u.service_type, u.endpoint, u.request_size,
                               u.processing_time, u.success, next_id, now)} :
       LET appended == r.usage_logs # usage_logs
       IN  /\ redis' = r.redis
           /\ subscriptions' = r.subscriptions
           /\ api_keys' = r.api_keys
           /\ usage_logs' = r.usage_logs
           /\ next_id' = IF appended THEN next_id + 1 ELSE next_id
           /\ ledger' = IF Truthy(r.res, "success")
                        THEN Append(ledger, r.usage_logs[Len(r.usage_logs)])
                        ELSE ledger
           /\ last' = [op |-> "log_api_usage", api_key |-> k, res |-> r.res]
    /\ UNCHANGED << now, ticks, redis_up, monetization_cache, cache_service,
                    window, pc, loc,
                    service_vars, stream_vars, security_vars >>

\* one whole call of get_usage_analytics: it returns a report or an error and
\* assigns nothing
GetUsageAnalytics(user_id, period) ==
    /\ LET res == get_usage_analytics(user_id, period, now)
       IN  Has(res, "analytics") \/ Has(res, "error")
    /\ UNCHANGED vars

\* one whole call of get_billing_dashboard: it returns a report and assigns
\* nothing
GetBillingDashboard ==
    /\ Has(get_billing_dashboard(now), "overview")
    /\ UNCHANGED vars

\* one whole call of create_subscription (with _generate_api_key 212-270); the
\* fresh uuid and the fresh key are sub_new and ak_new
CreateSubscription(user_id) ==
    /\ "sub_new" \notin DOMAIN subscriptions
    /\ LET subscription == Subscription("sub_new", user_id, "active", 0)
           key_record == KeyRecord("ak_new", user_id, "sub_new", "active")
           s1 == CacheSet(monetization_cache, redis, ApiKeyCacheKey("ak_new"),
                          json_dumps(key_record), API_KEY_TTL)
           s2 == CacheSet(monetization_cache, s1, SubscriptionCacheKey("sub_new"),
                          json_dumps(subscription), SUBSCRIPTION_TTL)
       IN  /\ subscriptions' =
                  [s \in DOMAIN subscriptions \cup {"sub_new"} |->
                      IF s = "sub_new" THEN subscription ELSE subscriptions[s]]
           /\ api_keys' =
                  [a \in DOMAIN api_keys \cup {"ak_new"} |->
                      IF a = "ak_new" THEN key_record ELSE api_keys[a]]
           /\ redis' = s2
           /\ last' = [op |-> "create_subscription", user_id |-> user_id,
                       res |-> [success |-> TRUE,
                                subscription |-> [subscription_id |-> "sub_new",
                                                  tier |-> subscription.tier,
                                                  status |-> subscription.status,
                                                  included_requests |->
                                                      subscription.included_requests],
                                api_key |-> "ak_new"]]
    /\ UNCHANGED << now, ticks, redis_up, monetization_cache, cache_service,
                    usage_logs, next_id, window, ledger, pc, loc,
                    service_vars, stream_vars, security_vars >>

\* more than seven days pass
NextWeek ==
    /\ ticks < MaxAdvances
    /\ Tick(7 * 86400 + HOUR_TTL)

NextLog ==
    \/ NextWeek
    \/ ConnectMonetizationCache
    \/ \E k \in LogKeys, u \in UsageInputs : LogApiUsage(k, u)
    \/ \E user_id \in {"u1", "u4", "u9"}, period \in Periods :
          GetUsageAnalytics(user_id, period)
    \/ GetBillingDashboard
    \/ \E user_id \in {"u4"} : CreateSubscription(user_id)

SpecLog == InitLog /\ [][NextLog]_vars

(***************************************************************************)
(* Claims about the usage ledger and the quota.                            *)
(***************************************************************************)
\* the calls of log_api_usage that returned success=True for a subscription
SuccessfulLogs(sid) ==
    Len(SelectSeq(ledger, LAMBDA e : e.subscription_id = sid))

UsageCounted ==
    \A sid \in DOMAIN subscriptions :
        /\ subscriptions[sid].used_requests = SuccessfulLogs(sid)
        /\ subscriptions[sid].overage_requests =
               Max(0, subscriptions[sid].used_requests
                      - subscriptions[sid].included_requests)

UsageNeverDecreases ==
    \A sid \in DOMAIN subscriptions :
        /\ sid \in DOMAIN subscriptions'
        /\ subscriptions'[sid].used_requests >= subscriptions[sid].used_requests

\* C7: within a billing cycle the used_requests of every subscription equals
\* the number of log_api_usage calls that returned success=True for it, no
\* step decreases it, and overage_requests = max(0, used_requests -
\* included_requests) after each call.
C7_UsedRequests == []UsageCounted /\ [][UsageNeverDecreases]_vars

\* a successful call has taken sub_1 one request over its included requests
C7_Witness ==
    /\ last.op = "log_api_usage"
    /\ Truthy(last.res, "success")
    /\ last.api_key = "ak_live"
    /\ subscriptions["sub_1"].used_requests = IncludedRequests + 1
    /\ subscriptions["sub_1"].overage_requests = 1
    /\ last.res.remaining_requests = 0

\* is a a subsequence of b
RECURSIVE IsSubsequence(_, _)
IsSubsequence(a, b) ==
    IF a = << >> THEN TRUE
    ELSE IF b = << >> THEN FALSE
    ELSE IF Head(a) = Head(b) THEN IsSubsequence(Tail(a), Tail(b))
    ELSE IsSubsequence(a, Tail(b))

\* the newest n entries of a sequence
Newest(entries, n) ==
    IF Len(entries) > n THEN SubSeq(entries, Len(entries) - n + 1, Len(entries))
    ELSE entries

\* the cost of the entries of a user logged at or after an instant
RECURSIVE CostSince(_, _, _)
CostSince(entries, user_id, from) ==
    IF entries = << >> THEN 0
    ELSE (IF Head(entries).user_id = user_id /\ Head(entries).timestamp.iso >= from
          THEN Head(entries).cost ELSE 0)
         + CostSince(Tail(entries), user_id, from)

\* the total cost get_usage_analytics reports to u1 for a period starting at from
ReportedCost(period) ==
    get_usage_analytics("u1", period, now).analytics.total_cost

\* C8 as stated: every entry a successful call appended is still in
\* usage_logs, unchanged and in the order logged, and the total cost of a
\* period is the sum over all entries logged in it.
C8_AppendOnlyAsStated ==
    /\ IsSubsequence(ledger, usage_logs)
    /\ ReportedCost("current_month") = CostSince(ledger, "u1", 0)
    /\ ReportedCost("last_7_days") = CostSince(ledger, "u1", now - 7 * 86400)

\* C8: usage_logs holds the newest UsageLogCap (10000) entries that successful
\* calls appended, unchanged and in the order logged, whatever calls of
\* log_api_usage, get_usage_analytics and get_billing_dashboard came later;
\* older entries are dropped, and the total cost of a period is the sum over
\* the entries of the period that are still held.
C8_AppendOnly ==
    /\ usage_logs = Newest(ledger, UsageLogCap)
    /\ ReportedCost("current_month")
           = CostSince(Newest(ledger, UsageLogCap), "u1", 0)
    /\ ReportedCost("last_7_days")
           = CostSince(Newest(ledger, UsageLogCap), "u1", now - 7 * 86400)

\* one entry more than the cap has been logged, over more than a week
C8_Witness ==
    /\ Len(ledger) = UsageLogCap + 1
    /\ Len(usage_logs) = UsageLogCap
    /\ ledger[1].user_id = "u1"
    /\ ledger[1].timestamp.iso < now - 7 * 86400
    /\ ledger[Len(ledger)].timestamp.iso = now

(***************************************************************************)
(* The classification route and the service behind it:                     *)
(* ClassificationService.classify (classification_service.py 215-340),     *)
(* CacheService.get_cached_classification / cache_classification_result    *)
(* (cache_service.py 119-148) and classify_image (classification.py        *)
(* 38-254).  Each reports the steps it took as a sequence of events.       *)
(***************************************************************************)
\* str.startswith and the substring test "p in s"
startswith(s, p) == Len(s) >= Len(p) /\ SubSeq(s, 1, Len(p)) = p
contains(s, p) ==
    \E i \in 1 .. (Len(s) - Len(p) + 1) : SubSeq(s, i, i + Len(p) - 1) = p

\* hashlib.md5(...).hexdigest()
md5(x) == "md5(" \o x \o ")"

\* a key that carries the time of the call
ClassificationCacheKey_timed(image_hash, model_name) ==
    [kind |-> "classification", id |-> image_hash \o ":" \o model_name, bucket |-> now]

\* a plausible slip: the model name left out of the key
ClassificationCacheKey_image_only(image_hash, model_name) ==
    [kind |-> "classification", id |-> image_hash, bucket |-> 0]

\* CacheService._generate_key("classification", f"{image_hash}:{model_name}")
ClassificationCacheKey(image_hash, model_name) ==
    [kind |-> "classification", id |-> image_hash \o ":" \o model_name, bucket |-> 0]

\* what CacheService.set returns: True when the value was written
CacheSetDone(cs) == cs.enabled /\ cs.redis_client /\ redis_up /\ redis_writable

\* a plausible slip: nothing is written
cache_classification_result_skipped(store, image_hash, model_name, result, ttl) ==
    store

\* the Redis contents after CacheService.cache_classification_result
cache_classification_result(store, image_hash, model_name, result, ttl) ==
    CacheSet(cache_service, store, ClassificationCacheKey(image_hash, model_name),
             [result |-> result, cached_at |-> isoformat(now), model |-> model_name],
             ttl)

\* what CacheService.cache_classification_result returns (line 135)
cache_classification_result_done == CacheSetDone(cache_service)

\* CacheService.get_cached_classification
get_cached_classification(store, image_hash, model_name) ==
    LET cached_data == CacheGet(cache_service, store,
                                ClassificationCacheKey(image_hash, model_name))
    IN  IF cached_data # None THEN cached_data.result ELSE None

(***************************************************************************)
(* The classification backends (classification_service.py 342-588).        *)
(* Confidences are in thousandths.  world is what the inference step of    *)
(* the selected backend does with the image: it raises (world.raises) or   *)
(* it answers the predictions world.raw; world.elapsed is the time the     *)
(* call is measured to take.  Each backend reports the backends that ran.  *)
(***************************************************************************)
Prediction(class_name, confidence, class_id) ==
    [class_name |-> class_name, confidence |-> confidence, class_id |-> class_id]

\* _classify_mock (342-361)
_classify_mock ==
    [predictions |-> << Prediction("cat", 800, "0"), Prediction("dog", 150, "1"),
                        Prediction("bird", 30, "2"), Prediction("car", 15, "3"),
                        Prediction("airplane", 5, "4") >>,
     backends |-> << "mock" >>]

\* the except of a backend (410-414, 457-459, 499-501, 586-588): the mock
\* classifier answers in its place
MockInstead(backend) ==
    [predictions |-> _classify_mock.predictions, backends |-> << backend, "mock" >>]

\* _classify_tensorflow (363-414)
_classify_tensorflow(model_name, world) ==
    IF "tensorflow" \notin frameworks THEN _classify_mock
    ELSE IF world.raises \/ model_name \notin Range(classification_service.models)
    THEN MockInstead("tensorflow")
    ELSE [predictions |-> world.raw, backends |-> << "tensorflow" >>]

\* _classify_pytorch (416-459)
_classify_pytorch(model_name, world) ==
    IF "pytorch" \notin frameworks THEN _classify_mock
    ELSE IF world.raises \/ model_name \notin Range(classification_service.models)
    THEN MockInstead("pytorch")
    ELSE [predictions |-> world.raw, backends |-> << "pytorch" >>]

\* _classify_google_vision (461-501)
_classify_google_vision(world) ==
    IF "google_vision" \notin frameworks THEN _classify_mock
    ELSE IF world.raises THEN MockInstead("google_vision")
    ELSE [predictions |-> world.raw, backends |-> << "google_vision" >>]

\* _classify_custom_model (503-588)
_classify_custom_model(model_name, world) ==
    IF \/ model_name \notin Range(classification_service.models)
       \/ model_name \notin DOMAIN classification_service.model_info
    THEN _classify_mock
    ELSE IF classification_service.model_info[model_name].model_type \notin frameworks
    THEN _classify_mock
    ELSE IF world.raises THEN MockInstead("custom")
    ELSE [predictions |-> world.raw, backends |-> << "custom" >>]

endswith(s, p) == Len(s) >= Len(p) /\ SubSeq(s, Len(s) - Len(p) + 1, Len(s)) = p

\* lines 277-289: Route to appropriate classification method
route(model_name, world) ==
    IF model_name = "mock" THEN _classify_mock
    ELSE IF model_name = "google_vision" THEN _classify_google_vision(world)
    ELSE IF model_name \in {"mobilenet_v2", "resnet50"}
    THEN _classify_tensorflow(model_name, world)
    ELSE IF endswith(model_name, "_torch") THEN _classify_pytorch(model_name, world)
    ELSE IF startswith(model_name, "custom_")
    THEN _classify_custom_model(model_name, world)
    ELSE [raises |-> TRUE, backends |-> << >>]

\* lines 298-304: the predictions at or above the threshold, in their order
filter_predictions(predictions, confidence_threshold) ==
    SelectSeq(predictions, LAMBDA pred : pred.confidence >= confidence_threshold)

\* where list.sort(key=confidence, reverse=True) puts one more element: behind
\* every element that is not smaller (the sort is stable)
RECURSIVE sort_insert(_, _)
sort_insert(sorted, pred) ==
    IF sorted = << >> THEN << pred >>
    ELSE IF Head(sorted).confidence >= pred.confidence
    THEN << Head(sorted) >> \o sort_insert(Tail(sorted), pred)
    ELSE << pred >> \o sorted

\* a plausible slip: the sort left out
sort_by_confidence_skipped(predictions) == predictions

\* line 309: filtered_predictions.sort(key=lambda x: x['confidence'], reverse=True)
RECURSIVE sort_by_confidence(_)
sort_by_confidence(predictions) ==
    IF predictions = << >> THEN << >>
    ELSE sort_insert(sort_by_confidence(SubSeq(predictions, 1, Len(predictions) - 1)),
                     predictions[Len(predictions)])

\* line 314: filtered_predictions[:5]
TOP_K == 5
top_predictions(predictions) ==
    IF Len(predictions) > TOP_K THEN SubSeq(predictions, 1, TOP_K) ELSE predictions

\* lines 296-302: filtered_scores, class_name -> confidence, a later
\* prediction of a class replacing an earlier one
filtered_scores(filtered) ==
    [c \in {filtered[i].class_name : i \in 1 .. Len(filtered)} |->
        filtered[CHOOSE i \in 1 .. Len(filtered) :
                    /\ filtered[i].class_name = c
                    /\ \A j \in (i + 1) .. Len(filtered) :
                           filtered[j].class_name # c].confidence]

\* lines 294-321: the result built from the predictions of the backend
final_result(predictions, model_name, confidence_threshold, elapsed) ==
    [predictions |->
         top_predictions(sort_by_confidence(
             filter_predictions(predictions, confidence_threshold))),
     confidence_scores |->
         filtered_scores(filter_predictions(predictions, confidence_threshold)),
     processing_time |-> elapsed,
     model_used |-> model_name,
     threshold_applied |-> confidence_threshold,
     from_cache |-> FALSE,
     cache_hit |-> FALSE]

\* lines 264-270: Check if model exists
registered_model(model_name) ==
    IF model_name \in Range(classification_service.models) THEN model_name
    ELSE IF classification_service.models # << >>
    THEN classification_service.models[1]
    ELSE "mock"

\* lines 272-340: the backend has answered (or raised); the result is built,
\* cached and returned, an exception is wrapped and raised again
classify_routed(store, image_hash, model_name, confidence_threshold, use_cache, events, world, results) ==
    IF Has(results, "raises")
    THEN [raised |-> TRUE, result |-> None, redis |-> store,
          events |-> events \o [i \in 1 .. Len(results.backends) |-> "backend"],
          backends |-> results.backends, model |-> model_name, stored |-> None]
    ELSE IF use_cache /\ image_hash # ""
    THEN [raised |-> FALSE,
          result |-> final_result(results.predictions, model_name,
                                  confidence_threshold, world.elapsed),
          redis |-> cache_classification_result(
                        store, image_hash, model_name,
                        final_result(results.predictions, model_name,
                                     confidence_threshold, world.elapsed),
                        CLASSIFICATION_TTL),
          events |-> events \o [i \in 1 .. Len(results.backends) |-> "backend"]
                            \o << "cache_write" >>,
          backends |-> results.backends, model |-> model_name,
          stored |-> Some(cache_classification_result_done)]
    ELSE [raised |-> FALSE,
          result |-> final_result(results.predictions, model_name,
                                  confidence_threshold, world.elapsed),
          redis |-> store,
          events |-> events \o [i \in 1 .. Len(results.backends) |-> "backend"],
          backends |-> results.backends, model |-> model_name, stored |-> None]

\* a plausible slip: the cached result is not looked at
classify_looked_up_anew(store, image_hash, model_name, confidence_threshold, use_cache, events, world, cached_result) ==
    classify_routed(store, image_hash, registered_model(model_name),
                    confidence_threshold, use_cache, events, world,
                    route(registered_model(model_name), world))

\* lines 243-270: the cache has been asked
classify_looked_up(store, image_hash, model_name, confidence_threshold, use_cache, events, world, cached_result) ==
    IF cached_result # None
    THEN [raised |-> FALSE,
          result |-> [cached_result EXCEPT !.from_cache = TRUE, !.cache_hit = TRUE],
          redis |-> store, events |-> events, backends |-> << >>,
          model |-> model_name, stored |-> None]
    ELSE classify_routed(store, image_hash, registered_model(model_name),
                         confidence_threshold, use_cache, events, world,
                         route(registered_model(model_name), world))

\* lines 233-262: the model name and the threshold are settled
classify_named(store, image, model_name, confidence_threshold, use_cache, world) ==
    IF use_cache
    THEN classify_looked_up(store, md5(image), model_name, confidence_threshold,
                            use_cache, << "cache_lookup" >>, world,
                            get_cached_classification(store, md5(image), model_name))
    ELSE classify_looked_up(store, "", model_name, confidence_threshold,
                            use_cache, << >>, world, None)

\* ClassificationService.classify (208-340).  model_name and
\* confidence_threshold are None or Some(value).
classify(store, image, model_name, confidence_threshold, use_cache, world) ==
    classify_named(store, image,
                   OrElse(model_name, get_default_model(classification_service, settings)),
                   OrElse(confidence_threshold, settings.CONFIDENCE_THRESHOLD),
                   use_cache, world)

\* the inference step of the route: it answers what the mock classifier
\* answers, or raises
RouteWorld(backend_ok) ==
    [raises |-> ~backend_ok, raw |-> _classify_mock.predictions, elapsed |-> 1]

\* classification.py 138: confidence_threshold=0.01
ROUTE_THRESHOLD == 10

\* classify_image: the response status; every exception raised inside the try,
\* the HTTPException(400) of a rejected file included, leaves as a 500
classify_image(store, req) ==
    IF ~req.file_ok
    THEN [status |-> HTTP_500_INTERNAL_SERVER_ERROR,
          body |-> [detail |-> "Classification failed"],
          redis |-> store,
          events |-> << "classify_image" >>]
    ELSE LET results == classify(store, req.image, None, Some(ROUTE_THRESHOLD),
                                 FALSE, RouteWorld(req.backend_ok))
         IN  [status |-> IF results.raised THEN HTTP_500_INTERNAL_SERVER_ERROR
                         ELSE 200,
              body |-> IF results.raised THEN [detail |-> "Classification failed"]
                       ELSE results.result,
              redis |-> results.redis,
              events |-> << "classify_image" >> \o results.events]

\* call_next(request): the routers of main.py 86-114 behind the middleware
call_next(store, req) ==
    IF req.path = "/api/v1/classify"
    THEN classify_image(store, req)
    ELSE [status |-> req.status, body |-> [handler |-> req.path], redis |-> store,
          events |-> << "handler" >>]

(***************************************************************************)
(* MonetizationMiddleware (middleware/monetization.py).                    *)
(***************************************************************************)
\* lines 20-27
exempt_paths ==
    {"/docs", "/redoc", "/openapi.json", "/api/v1/health",
     "/api/v1/billing/pricing", "/api/v1/billing/tiers"}

\* lines 31-40: the request goes to call_next unchecked
skips(path) ==
    \/ \E e \in exempt_paths : startswith(path, e)
    \/ ~startswith(path, "/api/v1/")
    \/ startswith(path, "/api/v1/billing/")

\* lines 151-166
_get_service_type(path) ==
    IF contains(path, "/classification") THEN "classification"
    ELSE IF contains(path, "/multimodal") THEN "multimodal"
    ELSE IF contains(path, "/realtime") THEN "realtime"
    ELSE IF contains(path, "/models") THEN "models"
    ELSE IF contains(path, "/collaboration") THEN "collaboration"
    ELSE IF contains(path, "/marketplace") THEN "marketplace"
    ELSE "general"

\* lines 43-44: request.headers.get("X-API-Key") is None or empty
api_key_missing(headers) ==
    ~Has(headers, "X_API_Key") \/ headers["X_API_Key"] = ""

\* a plausible slip: only an unknown key is turned away
key_rejected_if_unknown(key_info) ==
    Has(key_info, "error") /\ key_info.error = "Invalid API key"

\* line 57: not key_info.get("valid")
key_rejected(key_info) == ~Truthy(key_info, "valid")

\* JSONResponse(status_code=..., content={..., "error_code": ...})
JSONResponse(status_code, error_code) ==
    [status |-> status_code, body |-> [error_code |-> error_code]]

\* the status and the body of a response object
StatusAndBody(r) == [status |-> r.status, body |-> r.body]

\* what dispatch returns, and what it leaves untouched, when it answers
\* without logging: response is what it returns, handler is the response
\* the downstream handler gave (None when it was not called)
Answer(response, handler, events, store, key_info, rate_limit_status) ==
    [status |-> response.status, body |-> response.body,
     forwarded |-> handler # None, handler |-> handler, events |-> events,
     key_info |-> key_info, rate_limit_status |-> rate_limit_status,
     redis |-> store, subscriptions |-> subscriptions, api_keys |-> api_keys,
     usage_logs |-> usage_logs, log |-> None]

\* what _log_usage leaves behind when nothing was logged
NotLogged(store, raised, res) ==
    [raised |-> raised, res |-> res, redis |-> store,
     subscriptions |-> subscriptions, api_keys |-> api_keys,
     usage_logs |-> usage_logs]

\* a plausible slip: _log_usage without its try, an exception leaves it
_log_usage_unguarded(store, req, api_key, success, usage_id) ==
    IF req.log_fault = "raises"
    THEN NotLogged(store, TRUE, None)
    ELSE IF req.log_fault = "returns_false"
    THEN NotLogged(store, FALSE,
                   [success |-> FALSE, error |-> "Failed to log API usage"])
    ELSE [raised |-> FALSE]
         @@ log_api_usage(store, api_key, _get_service_type(req.path), req.path,
                          req.size, req.duration, success, usage_id, now)

\* _log_usage (113-149).  req.log_fault is what goes wrong inside it:
\* "raises", an exception on the way to log_api_usage, which the except of
\* line 147 swallows; "returns_false", log_api_usage answering success=False
\* from its own except (monetization_service.py 443-447), an answer nobody
\* reads; "none", log_api_usage runs
_log_usage(store, req, api_key, success, usage_id) ==
    IF req.log_fault = "raises"
    THEN NotLogged(store, FALSE, None)
    ELSE IF req.log_fault = "returns_false"
    THEN NotLogged(store, FALSE,
                   [success |-> FALSE, error |-> "Failed to log API usage"])
    ELSE [raised |-> FALSE]
         @@ log_api_usage(store, api_key, _get_service_type(req.path), req.path,
                          req.size, req.duration, success, usage_id, now)

\* lines 97-111: _log_usage is over; an exception that left it would be
\* answered by the except of line 104
dispatch_logged(r, events, key_info, rl, lg) ==
    IF lg.raised
    THEN Answer(JSONResponse(HTTP_500_INTERNAL_SERVER_ERROR, "MIDDLEWARE_ERROR"),
                StatusAndBody(r), events, lg.redis, key_info.res, rl.res)
    ELSE [status |-> r.status, body |-> r.body,
          forwarded |-> TRUE, handler |-> StatusAndBody(r), events |-> events,
          key_info |-> key_info.res, rate_limit_status |-> rl.res,
          redis |-> lg.redis, subscriptions |-> lg.subscriptions,
          api_keys |-> lg.api_keys, usage_logs |-> lg.usage_logs, log |-> lg.res]

\* lines 88-95: the handler has answered
dispatch_answered(req, api_key, usage_id, key_info, rl, events, r) ==
    IF r.status >= HTTP_500_INTERNAL_SERVER_ERROR
    THEN Answer(r, StatusAndBody(r), events \o r.events, r.redis, key_info.res,
                rl.res)
    ELSE dispatch_logged(r, events \o r.events \o << "log_api_usage" >>,
                         key_info, rl,
                         _log_usage(r.redis, req, api_key, r.status < 400,
                                    usage_id))

\* lines 69-86: the rate limits have been checked
dispatch_checked(req, api_key, usage_id, key_info, rl) ==
    IF Truthy(rl.res, "rate_limited")
    THEN Answer(JSONResponse(HTTP_429_TOO_MANY_REQUESTS, "RATE_LIMIT_EXCEEDED"),
                None,
                << "validate_api_key", "check_rate_limits" >>, rl.redis,
                key_info.res, rl.res)
    ELSE dispatch_answered(req, api_key, usage_id, key_info, rl,
                           << "validate_api_key", "check_rate_limits", "call_next" >>,
                           call_next(rl.redis, req))

\* lines 57-67: the key has been validated
dispatch_validated(req, api_key, usage_id, key_info) ==
    IF key_rejected(key_info.res)
    THEN Answer(JSONResponse(HTTP_401_UNAUTHORIZED, "API_KEY_INVALID"), None,
                << "validate_api_key" >>, key_info.redis, key_info.res, None)
    ELSE dispatch_checked(req, api_key, usage_id, key_info,
                          check_rate_limits(key_info.redis, api_key, now))

\* lines 31-40: the request goes to the handler unchecked
dispatch_unchecked(r) ==
    Answer(r, StatusAndBody(r), << "call_next" >> \o r.events, r.redis, None, None)

\* MonetizationMiddleware.dispatch (29-111)
dispatch(store, req, usage_id) ==
    IF skips(req.path)
    THEN dispatch_unchecked(call_next(store, req))
    ELSE IF api_key_missing(req.headers)
    THEN Answer(JSONResponse(HTTP_401_UNAUTHORIZED, "API_KEY_MISSING"), None,
                << >>, store, None, None)
    ELSE dispatch_validated(req, req.headers["X_API_Key"], usage_id,
                            validate_api_key(store, req.headers["X_API_Key"]))

(***************************************************************************)
(* The request specification: requests arrive at the middleware one at a   *)
(* time, within one minute; the service's cache may get connected.         *)
(***************************************************************************)
HeaderValues == {"", "ak_live", "ak_revoked", "ak_orphan", "ak_unpaid", "ak_unknown"}

RequestHeaders ==
    {[Host |-> "api"]} \cup {[Host |-> "api", X_API_Key |-> k] : k \in HeaderValues}

Request(path, headers, file_ok, backend_ok, status, log_fault) ==
    [path |-> path, headers |-> headers, image |-> "img_a", file_ok |-> file_ok,
     backend_ok |-> backend_ok, status |-> status, log_fault |-> log_fault,
     size |-> IF path = "/api/v1/classify" THEN LARGE_REQUEST + 1 ELSE 0,
     duration |-> 1]

LogFaults == {"none", "returns_false", "raises"}

Requests ==
    {Request("/api/v1/classify", h, TRUE, TRUE, 200, "none") : h \in RequestHeaders}
    \cup {Request("/api/v1/classify", [Host |-> "api", X_API_Key |-> "ak_live"],
                  o[1], o[2], 200, "none") :
             o \in {<< TRUE, FALSE >>, << FALSE, TRUE >>}}
    \cup {Request("/api/v1/models", [Host |-> "api", X_API_Key |-> "ak_live"],
                  TRUE, TRUE, 200, f) :
             f \in LogFaults}
    \cup {Request("/api/v1/models", [Host |-> "api", X_API_Key |-> "ak_live"],
                  TRUE, TRUE, 404, "none")}
    \cup {Request(p, [Host |-> "api"], TRUE, TRUE, 200, "none") :
             p \in {"/api/v1/health", "/api/v1/billing/usage", "/"}}

\* main.py 35-41: the lifespan has connected the global cache_service before
\* the first request is served
InitMw ==
    /\ Constructed
    /\ \E e \in BOOLEAN :
          /\ monetization_cache = [enabled |-> e, redis_client |-> FALSE]
          /\ cache_service = [enabled |-> e, redis_client |-> TRUE]
    /\ subscriptions = StoredSubscriptions(0)

\* one whole request through MonetizationMiddleware.dispatch
Dispatch(req) ==
    /\ next_id <= MaxCalls
    /\ \E r \in {dispatch(redis, req, next_id)} :
       LET logged == r.log # None /\ Truthy(r.log, "success")
       IN  /\ redis' = r.redis
           /\ subscriptions' = r.subscriptions
           /\ api_keys' = r.api_keys
           /\ usage_logs' = r.usage_logs
           /\ next_id' = IF r.usage_logs # usage_logs THEN next_id + 1 ELSE next_id
           /\ ledger' = IF logged
                        THEN Append(ledger, r.usage_logs[Len(r.usage_logs)])
                        ELSE ledger
           /\ last' = [op |-> "dispatch",
                       path |-> req.path,
                       headers |-> req.headers,
                       log_fault |-> req.log_fault,
                       status |-> r.status,
                       body |-> r.body,
                       handler |-> r.handler,
                       log |-> r.log,
                       forwarded |-> r.forwarded,
                       events |-> r.events,
                       key_info |-> r.key_info,
                       rate_limit_status |-> r.rate_limit_status,
                       appended |-> IF logged THEN 1 ELSE 0]
    /\ UNCHANGED << now, ticks, redis_up, monetization_cache, cache_service,
                    window, pc, loc,
                    service_vars, stream_vars, security_vars >>

NextMw ==
    \/ ConnectMonetizationCache
    \/ \E req \in Requests : Dispatch(req)

SpecMw == InitMw /\ [][NextMw]_vars

(***************************************************************************)
(* Claims about the middleware and the order of a request's steps.         *)
(***************************************************************************)
\* the last step was a request through the middleware
LastDispatch == last.op = "dispatch"

\* check_rate_limits answered the request's key with a denial for an exceeded
\* minute or hour limit
Denied(rate_limit_status) ==
    /\ rate_limit_status # None
    /\ ~rate_limit_status.allowed
    /\ Has(rate_limit_status, "limit")

\* C3: when check_rate_limits returns a denial for the request's API key,
\* dispatch answers HTTP 429 and the downstream handler is not invoked.
C3_DenialBlocks ==
    (LastDispatch /\ Denied(last.rate_limit_status)) =>
        /\ last.status = HTTP_429_TOO_MANY_REQUESTS
        /\ ~last.forwarded

\* a metered path, as the claim words it
Metered(path) ==
    /\ startswith(path, "/api/v1/")
    /\ \A e \in exempt_paths : ~startswith(path, e)
    /\ ~startswith(path, "/api/v1/billing/")

\* the header is missing, or names a key that is unknown or not active, or
\* whose subscription is missing or not active
KeyUnusable(headers) ==
    \/ ~Has(headers, "X_API_Key")
    \/ headers["X_API_Key"] \notin DOMAIN api_keys
    \/ api_keys[headers["X_API_Key"]].status # "active"
    \/ api_keys[headers["X_API_Key"]].subscription_id \notin DOMAIN subscriptions
    \/ subscriptions[api_keys[headers["X_API_Key"]].subscription_id].status # "active"

\* C4: a request to a metered path without X-API-Key, or with a key that
\* validate_api_key reports invalid, is answered HTTP 401 and the downstream
\* handler is not invoked.
C4_InvalidKeyRejected ==
    (LastDispatch /\ Metered(last.path) /\ KeyUnusable(last.headers)) =>
        /\ last.status = HTTP_401_UNAUTHORIZED
        /\ ~last.forwarded
        /\ \A i \in 1 .. Len(last.events) : last.events[i] # "call_next"

\* a request with a revoked key was turned away after validate_api_key
C4_Witness ==
    /\ LastDispatch
    /\ last.path = "/api/v1/classify"
    /\ Has(last.headers, "X_API_Key")
    /\ last.headers["X_API_Key"] = "ak_revoked"
    /\ last.key_info # None
    /\ ~last.key_info.valid
    /\ last.status = HTTP_401_UNAUTHORIZED
    /\ ~last.forwarded

\* the place of an event in the steps of a request, 0 when it did not happen
Position(events, e) ==
    IF \E i \in 1 .. Len(events) : events[i] = e
    THEN CHOOSE i \in 1 .. Len(events) :
             events[i] = e /\ \A j \in 1 .. (i - 1) : events[j] # e
    ELSE 0

\* C10: a metered classification request that reaches a backend has passed
\* the rate limiter first and has looked up the result cache before the
\* backend; after a successful classification the result is written to the
\* cache and one entry is appended to the usage ledger.
C10_RequestOrder ==
    (/\ LastDispatch
     /\ last.path = "/api/v1/classify"
     /\ Position(last.events, "backend") > 0) =>
        /\ Position(last.events, "check_rate_limits") > 0
        /\ Position(last.events, "check_rate_limits")
               < Position(last.events, "classify_image")
        /\ Position(last.events, "cache_lookup") > 0
        /\ Position(last.events, "cache_lookup") < Position(last.events, "backend")
        /\ (last.status = 200 =>
               /\ Position(last.events, "cache_write")
                      > Position(last.events, "backend")
               /\ last.appended = 1)

(***************************************************************************)
(* Usage logging and the response of a metered request.                    *)
(***************************************************************************)
\* C11: for every metered request that reaches the downstream handler,
\* dispatch returns the handler's response, same status and same body,
\* whether log_api_usage succeeds, returns success=False, or an exception is
\* raised inside _log_usage.
C11_LoggingKeepsResponse ==
    (LastDispatch /\ Metered(last.path) /\ last.handler # None) =>
        /\ last.status = last.handler.status
        /\ last.body = last.handler.body

\* a metered request was answered 200 by its handler and the logging raised
C11_Witness ==
    /\ LastDispatch
    /\ Metered(last.path)
    /\ last.log_fault = "raises"
    /\ last.handler # None
    /\ last.handler.status = 200
    /\ last.log = None
    /\ last.appended = 0

(***************************************************************************)
(* The classification cache on its own: results are put and looked up      *)
(* under (image fingerprint, model name) pairs while time passes, Redis    *)
(* fails and recovers, and the lifespan connects the cache service.        *)
(***************************************************************************)
Images == {"img_a"}
CachedModels == {"mock", "resnet50"}

\* the results classify builds for the mock predictions under two thresholds
CachedResults ==
    {final_result(_classify_mock.predictions, "mock", t, 1) :
        t \in {DEFAULT_CONFIDENCE_THRESHOLD, ROUTE_THRESHOLD}}

InitCache ==
    /\ Constructed
    /\ monetization_cache = [enabled |-> TRUE, redis_client |-> FALSE]
    /\ \E e \in BOOLEAN : cache_service = [enabled |-> e, redis_client |-> FALSE]
    /\ subscriptions = StoredSubscriptions(0)

\* main.py 35-41: CacheService.connect on the global cache_service
ConnectCacheService ==
    /\ cache_service' = CacheConnect(cache_service)
    /\ cache_service' # cache_service
    /\ UNCHANGED << now, ticks, redis, redis_up, monetization_cache, subscriptions,
                    api_keys, usage_logs, next_id, last, window, ledger,
                    pc, loc, service_vars, stream_vars, security_vars >>

\* the observer after a put: what was stored under the pair, and when
Stored(pair, result, done) ==
    IF done
    THEN [q \in DOMAIN puts \cup {pair} |->
             IF q = pair
             THEN [result |-> result, at |-> now,
                   count |-> IF pair \in DOMAIN puts THEN puts[pair].count + 1 ELSE 1]
             ELSE puts[q]]
    ELSE puts

\* one call of cache_classification_result
CacheClassificationResult(image, model_name, result) ==
    /\ next_id <= MaxPuts
    /\ next_id' = next_id + 1
    /\ redis' = cache_classification_result(redis, md5(image), model_name, result,
                                            CLASSIFICATION_TTL)
    /\ puts' = Stored(<< md5(image), model_name >>, result,
                      cache_classification_result_done)
    /\ last' = [op |-> "cache_classification_result",
                image_hash |-> md5(image), model_name |-> model_name,
                res |-> cache_classification_result_done]
    /\ UNCHANGED << now, ticks, redis_up, monetization_cache, cache_service,
                    subscriptions, api_keys, usage_logs, window, ledger, pc, loc,
                    frameworks, settings, classification_service, stream_vars, security_vars >>

\* one call of get_cached_classification
GetCachedClassification(image, model_name) ==
    /\ last' = [op |-> "get_cached_classification",
                image_hash |-> md5(image), model_name |-> model_name,
                res |-> get_cached_classification(redis, md5(image), model_name)]
    /\ UNCHANGED << now, ticks, redis, redis_up, monetization_cache, cache_service,
                    subscriptions, api_keys, usage_logs, next_id, window, ledger,
                    pc, loc, service_vars, stream_vars, security_vars >>

NextCache ==
    \/ ConnectCacheService
    \/ \E d \in Advances : Tick(d)
    \/ RedisFail
    \/ RedisRecover
    \/ \E i \in Images, m \in CachedModels, r \in CachedResults :
           CacheClassificationResult(i, m, r)
    \/ \E i \in Images, m \in CachedModels : GetCachedClassification(i, m)

SpecCache == InitCache /\ [][NextCache]_vars

\* what the last put under the pair stored, None when nothing was put under
\* it or the TTL of that put has elapsed
Unexpired(image_hash, model_name) ==
    IF /\ << image_hash, model_name >> \in DOMAIN puts
       /\ now < puts[<< image_hash, model_name >>].at + CLASSIFICATION_TTL
    THEN puts[<< image_hash, model_name >>].result
    ELSE None

FullSettings ==
    [DEFAULT_MODEL |-> "auto", GOOGLE_CLOUD_CREDENTIALS |-> TRUE,
     CONFIDENCE_THRESHOLD |-> DEFAULT_CONFIDENCE_THRESHOLD]

Frameworks == {"tensorflow", "pytorch", "google_vision"}

BuiltinModels == {"mobilenet_v2", "resnet50", "resnet18_torch", "google_vision"}

InitClassify ==
    /\ now = 0
    /\ ticks = 0
    /\ redis = << >>
    /\ redis_up = TRUE
    /\ api_keys = StoredApiKeys
    /\ usage_logs = << >>
    /\ next_id = 1
    /\ last = Idle
    /\ window = [k \in ApiKeyValues |-> NoWindow]
    /\ ledger = << >>
    /\ pc = [p \in 1 .. MaxProcs |-> "idle"]
    /\ loc = [p \in 1 .. MaxProcs |-> None]
    /\ subscriptions = StoredSubscriptions(0)
    /\ monetization_cache = [enabled |-> TRUE, redis_client |-> FALSE]
    /\ \E e \in BOOLEAN : cache_service = [enabled |-> e, redis_client |-> TRUE]
    /\ \/ /\ frameworks = {}
          /\ settings = DevelopmentSettings
          /\ classification_service = _initialize_models({}, {}, DevelopmentSettings)
       \/ /\ frameworks = Frameworks
          /\ settings = FullSettings
          /\ classification_service =
                 _initialize_models(Frameworks, BuiltinModels, FullSettings)
    /\ puts = << >>
    /\ StreamsConstructed
    /\ SecurityConstructed

\* what the inference step answers for the image
RawPredictions ==
    {<< Prediction("tabby", 300, "n1"), Prediction("clock", 900, "n2"),
        Prediction("tiger", 300, "n3"), Prediction("lynx", 40, "n4"),
        Prediction("wall_clock", 600, "n5") >>,
     << >>}

Worlds ==
    {[raises |-> TRUE, raw |-> << >>, elapsed |-> 1]}
    \cup {[raises |-> FALSE, raw |-> raw, elapsed |-> 1] : raw \in RawPredictions}

\* the inference step raises, or answers five unsorted predictions
CachedWorlds == {w \in Worlds : w.raises \/ w.raw # << >>}

\* the model names asked for when the cache is exercised, and when every
\* backend is
RequestedModels == {None, Some("resnet50"), Some("no_such_model")}

RoutedModels ==
    {None, Some("mock"), Some("resnet50"), Some("resnet18_torch"),
     Some("google_vision"), Some("custom_m1"), Some("no_such_model")}

\* the default threshold (0.1), or 0.5
RequestedThresholds == {None, Some(500)}

\* one whole call of classify
Classify(image, model_name, confidence_threshold, use_cache, world) ==
    /\ next_id <= MaxClassify
    /\ next_id' = next_id + 1
    /\ \E r \in {classify(redis, image, model_name, confidence_threshold,
                           use_cache, world)} :
          /\ redis' = r.redis
          /\ last' = [op |-> "classify",
                      image |-> image,
                      model_name |-> model_name,
                      confidence_threshold |-> confidence_threshold,
                      use_cache |-> use_cache,
                      world |-> world,
                      at |-> now,
                      available |-> CacheAvailable(cache_service),
                      models |-> classification_service.models,
                      cached |-> get_cached_classification(
                                     redis, md5(image),
                                     OrElse(model_name,
                                            get_default_model(classification_service,
                                                              settings))),
                      raised |-> r.raised,
                      result |-> r.result,
                      backends |-> r.backends,
                      stored |-> r.stored,
                      prev |-> IF last.op = "classify"
                               THEN [last EXCEPT !.prev = None]
                               ELSE None]
    /\ UNCHANGED << now, ticks, redis_up, monetization_cache, cache_service,
                    subscriptions, api_keys, usage_logs, window, ledger, pc, loc,
                    service_vars, stream_vars, security_vars >>

\* one call of load_custom_model for the custom model m1, a TensorFlow model
LoadCustomModel ==
    /\ classification_service' =
           load_custom_model(classification_service, frameworks, "m1", "tensorflow", TRUE)
    /\ classification_service' # classification_service
    /\ UNCHANGED << now, ticks, redis, redis_up, monetization_cache, cache_service,
                    subscriptions, api_keys, usage_logs, next_id, last, window,
                    ledger, pc, loc, frameworks, settings, puts, stream_vars, security_vars >>

\* one call of unload_custom_model for m1
UnloadCustomModel ==
    /\ classification_service' = unload_custom_model(classification_service, "m1")
    /\ classification_service' # classification_service
    /\ UNCHANGED << now, ticks, redis, redis_up, monetization_cache, cache_service,
                    subscriptions, api_keys, usage_logs, next_id, last, window,
                    ledger, pc, loc, frameworks, settings, puts, stream_vars, security_vars >>

\* the clock advances, once
Later ==
    /\ ticks < MaxAdvances
    /\ \E d \in Advances : Tick(d)

NextClassify ==
    \/ Later
    \/ RedisFail
    \/ RedisRecover
    \/ \E i \in Images, m \in RequestedModels, t \in RequestedThresholds,
          c \in BOOLEAN, w \in CachedWorlds :
           Classify(i, m, t, c, w)

SpecClassify == InitClassify /\ [][NextClassify]_vars

NextBackends ==
    \/ LoadCustomModel
    \/ UnloadCustomModel
    \/ \E i \in Images, m \in RoutedModels, c \in BOOLEAN, w \in Worlds :
           Classify(i, m, None, c, w)

SpecBackends == InitClassify /\ [][NextBackends]_vars

(***************************************************************************)
(* Claims about classify and the cache.                                    *)
(***************************************************************************)
LastClassify == last.op = "classify"

\* the model name and the threshold a call settles on (lines 233-239)
ResolvedModel(c) ==
    OrElse(c.model_name, get_default_model(classification_service, settings))

ResolvedThreshold(c) == OrElse(c.confidence_threshold, settings.CONFIDENCE_THRESHOLD)

\* the call found nothing in the cache, or did not ask
Missed(c) == ~c.use_cache \/ c.cached = None

ProbedModels == {"mock", "mobilenet_v2", "resnet50", "no_such_model"}

C14_CacheHitSkipsBackends ==
    (LastClassify /\ last.use_cache /\ last.cached # None) =>
        /\ ~last.raised
        /\ last.backends = << >>
        /\ last.result = [last.cached EXCEPT !.from_cache = TRUE, !.cache_hit = TRUE]

\* a call with another threshold than the one the cached result was built
\* under was served from the cache
C14_Witness ==
    /\ LastClassify
    /\ last.use_cache
    /\ last.cached # None
    /\ last.result.from_cache
    /\ last.result.threshold_applied # ResolvedThreshold(last)
    /\ last.result.predictions = last.cached.predictions
    /\ last.backends = << >>

\* the predictions are sorted non-increasing by confidence
SortedByConfidence(predictions) ==
    \A i \in 1 .. (Len(predictions) - 1) :
        predictions[i].confidence >= predictions[i + 1].confidence

\* every prediction is at or above the threshold
AtOrAbove(predictions, threshold) ==
    \A i \in 1 .. Len(predictions) : predictions[i].confidence >= threshold

\* C15 as stated: the result of classify called with confidence_threshold=T
\* contains only predictions with confidence >= T, sorted non-increasing by
\* confidence, at most 5 of them.
C15_FilterRankAsStated ==
    (LastClassify /\ ~last.raised) =>
        /\ AtOrAbove(last.result.predictions, ResolvedThreshold(last))
        /\ SortedByConfidence(last.result.predictions)
        /\ Len(last.result.predictions) <= TOP_K

\* C15: the result of classify contains only predictions with confidence at
\* or above the threshold it was built under (threshold_applied, which is
\* the T of the call unless the result is served from the cache), sorted
\* non-increasing by confidence, at most 5 of them.
C15_FilterRank ==
    (LastClassify /\ ~last.raised) =>
        /\ AtOrAbove(last.result.predictions, last.result.threshold_applied)
        /\ (~last.result.from_cache =>
               last.result.threshold_applied = ResolvedThreshold(last))
        /\ SortedByConfidence(last.result.predictions)
        /\ Len(last.result.predictions) <= TOP_K

\* five unsorted predictions of a TensorFlow model were filtered, some of
\* them dropped, and the rest returned in order
C15_Witness ==
    /\ LastClassify
    /\ ~last.raised
    /\ last.backends = << "tensorflow" >>
    /\ Len(last.world.raw) = TOP_K
    /\ ~SortedByConfidence(last.world.raw)
    /\ Len(last.result.predictions) > 1
    /\ Len(last.result.predictions) < Len(last.world.raw)
    /\ ResolvedThreshold(last) > settings.CONFIDENCE_THRESHOLD

\* the call c repeats the call d
Identical(c, d) ==
    /\ c.image = d.image
    /\ c.model_name = d.model_name
    /\ c.confidence_threshold = d.confidence_threshold
    /\ c.use_cache = d.use_cache

\* C16: with the cache store available, a classify(use_cache=True) call for
\* a registered model that misses, followed within the TTL by an identical
\* call, makes the second call return from_cache=true with the prediction
\* list of the first.
C16_RepeatServedFromCache ==
    (/\ LastClassify
     /\ last.prev # None
     /\ Identical(last, last.prev)
     /\ last.use_cache
     /\ last.prev.available
     /\ last.available
     /\ ~last.prev.raised
     /\ ~last.prev.result.from_cache
     /\ ResolvedModel(last) \in Range(last.prev.models)
     /\ last.at < last.prev.at + CLASSIFICATION_TTL) =>
        /\ ~last.raised
        /\ last.result.from_cache
        /\ last.result.predictions = last.prev.result.predictions

\* a call for resnet50 missed and ran TensorFlow; repeated some time later,
\* within the TTL, it was served from the cache
C16_Witness ==
    /\ LastClassify
    /\ last.prev # None
    /\ Identical(last, last.prev)
    /\ last.use_cache
    /\ last.model_name = Some("resnet50")
    /\ last.prev.backends = << "tensorflow" >>
    /\ last.prev.result.predictions # << >>
    /\ last.prev.at < last.at
    /\ last.at < last.prev.at + CLASSIFICATION_TTL
    /\ last.result.from_cache
    /\ last.backends = << >>

\* the model classify runs after the check of lines 264-270
Selected(c) ==
    IF ResolvedModel(c) \in Range(c.models) THEN ResolvedModel(c)
    ELSE IF c.models # << >> THEN c.models[1]
    ELSE "mock"

\* the backend a registered model is served by
BackendOf(model_name) ==
    IF model_name = "mock" THEN "mock"
    ELSE IF model_name = "google_vision" THEN "google_vision"
    ELSE IF model_name \in {"mobilenet_v2", "resnet50"} THEN "tensorflow"
    ELSE IF endswith(model_name, "_torch") THEN "pytorch"
    ELSE "custom"

\* the call reached the inference step of a TensorFlow, PyTorch, Google
\* Vision or custom model, and the step raised
InferenceRaised(c) == Missed(c) /\ Selected(c) # "mock" /\ c.world.raises

\* C17: whenever the inference step of the selected backend raises,
\* classify raises to its caller, returns no substitute predictions, and
\* invokes no backend a second time.
C17_BackendFailureSurfaces ==
    (LastClassify /\ InferenceRaised(last)) =>
        /\ last.raised
        /\ last.result = None
        /\ Len(last.backends) = 1

\* C18: for a model_name that is not in the registry, classify falls back
\* to the first registered model, does not raise, and reports in model_used
\* the model that ran.
C18_UnknownModelFallsBack ==
    (LastClassify /\ ResolvedModel(last) \notin Range(last.models)) =>
        /\ ~last.raised
        /\ last.result.model_used = Selected(last)
        /\ last.backends = << BackendOf(last.result.model_used) >>

\* what does hold: the same of every call that is not served from the cache
\* and whose inference step does not raise
C18_OnMissUnlessInferenceRaises ==
    (LastClassify /\ ResolvedModel(last) \notin Range(last.models)
                  /\ Missed(last) /\ ~InferenceRaised(last)) =>
        /\ ~last.raised
        /\ last.result.model_used = Selected(last)
        /\ last.backends = << BackendOf(last.result.model_used) >>

(***************************************************************************)
(* The default model.  The service is constructed under every combination  *)
(* of installed frameworks, of models whose loading succeeds, of Google    *)
(* credentials and of DEFAULT_MODEL; afterwards custom models are loaded   *)
(* and unloaded and get_default_model is called.  last.constructed keeps   *)
(* the registry the constructor left.                                      *)
(***************************************************************************)
DefaultModelSettings ==
    {"auto", "AUTO", "mock", "mobilenet_v2", "resnet50", "google_vision",
     "custom_m1", "no_such_model"}

CustomModels == {<< "m1", "tensorflow" >>, << "m2", "pytorch" >>}

InitDefault ==
    /\ now = 0
    /\ ticks = 0
    /\ redis = << >>
    /\ redis_up = TRUE
    /\ api_keys = StoredApiKeys
    /\ usage_logs = << >>
    /\ next_id = 1
    /\ window = [k \in ApiKeyValues |-> NoWindow]
    /\ ledger = << >>
    /\ pc = [p \in 1 .. MaxProcs |-> "idle"]
    /\ loc = [p \in 1 .. MaxProcs |-> None]
    /\ subscriptions = StoredSubscriptions(0)
    /\ monetization_cache = [enabled |-> TRUE, redis_client |-> FALSE]
    /\ cache_service = [enabled |-> TRUE, redis_client |-> TRUE]
    /\ frameworks \in SUBSET Frameworks
    /\ \E d \in DefaultModelSettings, g \in BOOLEAN :
          settings = [DEFAULT_MODEL |-> d, GOOGLE_CLOUD_CREDENTIALS |-> g,
                      CONFIDENCE_THRESHOLD |-> DEFAULT_CONFIDENCE_THRESHOLD]
    /\ \E loadable \in SUBSET BuiltinModels :
          classification_service = _initialize_models(frameworks, loadable, settings)
    /\ last = [op |-> "__init__", constructed |-> classification_service.models]
    /\ puts = << >>
    /\ StreamsConstructed
    /\ SecurityConstructed

\* one call of load_custom_model
LoadCustom(model_id, model_type, load_ok) ==
    /\ classification_service' =
           load_custom_model(classification_service, frameworks, model_id,
                             model_type, load_ok)
    /\ last' = [op |-> "load_custom_model", constructed |-> last.constructed]
    /\ UNCHANGED << now, ticks, redis, redis_up, monetization_cache, cache_service,
                    subscriptions, api_keys, usage_logs, next_id, window,
                    ledger, pc, loc, frameworks, settings, puts, stream_vars, security_vars >>

\* one call of unload_custom_model
UnloadCustom(model_id) ==
    /\ classification_service' = unload_custom_model(classification_service, model_id)
    /\ last' = [op |-> "unload_custom_model", constructed |-> last.constructed]
    /\ UNCHANGED << now, ticks, redis, redis_up, monetization_cache, cache_service,
                    subscriptions, api_keys, usage_logs, next_id, window,
                    ledger, pc, loc, frameworks, settings, puts, stream_vars, security_vars >>

\* one call of get_default_model
GetDefaultModel ==
    /\ last' = [op |-> "get_default_model", constructed |-> last.constructed,
                res |-> get_default_model(classification_service, settings)]
    /\ UNCHANGED << now, ticks, redis, redis_up, monetization_cache, cache_service,
                    subscriptions, api_keys, usage_logs, next_id, window,
                    ledger, pc, loc, service_vars, stream_vars, security_vars >>

NextDefault ==
    \/ \E c \in CustomModels, ok \in BOOLEAN : LoadCustom(c[1], c[2], ok)
    \/ \E c \in CustomModels : UnloadCustom(c[1])
    \/ GetDefaultModel

SpecDefault == InitDefault /\ [][NextDefault]_vars

\* the first name of the fixed order that is in the registry
FirstPreferred(keys) ==
    LET order == << "mobilenet_v2", "resnet50", "resnet18_torch", "google_vision",
                    "mock" >>
    IN  order[CHOOSE i \in 1 .. Len(order) :
                 /\ order[i] \in Range(keys)
                 /\ \A j \in 1 .. (i - 1) : order[j] \notin Range(keys)]

DefaultResolved ==
    LET default == get_default_model(classification_service, settings)
    IN  /\ default \in Range(classification_service.models)
        /\ settings.DEFAULT_MODEL \in {"auto", "AUTO"} =>
               default = FirstPreferred(last.constructed)
        /\ (/\ settings.DEFAULT_MODEL \notin {"auto", "AUTO"}
            /\ settings.DEFAULT_MODEL \notin Range(last.constructed)) =>
               default = "mock"
        /\ last.op = "get_default_model" => last.res = default

DefaultKept ==
    get_default_model(classification_service', settings')
        = get_default_model(classification_service, settings)

\* C19: with DEFAULT_MODEL 'auto' the default model is the first name of
\* [mobilenet_v2, resnet50, resnet18_torch, google_vision, mock] that the
\* constructor registered; with an explicit DEFAULT_MODEL that it did not
\* register the default is 'mock'; get_default_model always returns a
\* registered model, and the same one whatever is loaded or unloaded later.
C19_DefaultModel == []DefaultResolved /\ [][DefaultKept]_vars

\* TensorFlow is installed but MobileNetV2 failed to load, PyTorch is the
\* first framework with a model; a custom model was loaded afterwards and
\* get_default_model still answers resnet18_torch
C19_Witness ==
    /\ last.op = "get_default_model"
    /\ settings.DEFAULT_MODEL = "auto"
    /\ frameworks = Frameworks
    /\ last.constructed = << "resnet18_torch", "google_vision", "mock" >>
    /\ "custom_m2" \in Range(classification_service.models)
    /\ last.res = "resnet18_torch"

(***************************************************************************)
(* The real-time stream processor (services/realtime_stream.py).           *)
(* asyncio runs one coroutine at a time: an action is the code between two *)
(* suspension points, an await that does suspend.  A session dict is       *)
(* shared by reference: sessions holds the dicts, active_streams and the   *)
(* coroutines hold their positions in it.                                   *)
(***************************************************************************)
max_concurrent_streams == 5

StreamIds == {"stream_a"}

\* the WebSocket connections that may subscribe
Clients == {"ws_1"}

non_stream_vars == << now, ticks, redis, redis_up, monetization_cache, cache_service, subscriptions, api_keys, usage_logs, next_id, window, ledger, pc, loc, service_vars, security_vars >>

\* the create, start and stop requests made so far
StreamCalls == Len(sessions) + Len(tasks) + Len(stops)

\* the dict create_stream_session builds
NewSession(stream_id) ==
    [stream_id |-> stream_id, status |-> "created", frame_count |-> 0,
     websocket_clients |-> {}, processing_task |-> None]

\* asyncio.create_task(self._process_webcam_stream(...)): scheduled, not yet run
NewTask(stream_id) ==
    [stream_id |-> stream_id, session |-> 0, pc |-> "created", cap |-> "none",
     cancel |-> FALSE, send |-> None, outcome |-> "pending"]

\* the local state of a stop_stream call
NewStop(stream_id) ==
    [stream_id |-> stream_id, session |-> 0, task |-> None, was |-> None,
     pc |-> "begin", success |-> FALSE, send |-> None]

\* _broadcast_to_websocket_clients up to its first client.send: None when it
\* returns without suspending, else the session and the client it waits on
_broadcast_to_websocket_clients(as, ss, stream_id) ==
    IF stream_id \notin DOMAIN as
    THEN None
    ELSE IF ss[as[stream_id]].websocket_clients = {}
         THEN None
         ELSE [session |-> as[stream_id],
               client |-> CHOOSE c \in ss[as[stream_id]].websocket_clients : TRUE]

\* _broadcast_to_websocket_clients after client.send: whatever the send
\* raised, a cancellation included, the bare except keeps it and the client
\* is discarded
_broadcast_sent(ss, send, failed) ==
    IF failed
    THEN [ss EXCEPT ![send.session].websocket_clients = @ \ {send.client}]
    ELSE ss

\* the finally clause of _process_webcam_stream, and the end of the task
_process_webcam_stream_finally(st, t, outcome) ==
    [sessions |-> [st.sessions EXCEPT ![st.tasks[t].session].status = "stopped"],
     tasks |-> [st.tasks EXCEPT ![t].cap = IF @ = "none" THEN "none" ELSE "released",
                                ![t].pc = "done",
                                ![t].cancel = FALSE,
                                ![t].outcome = outcome]]

\* the except clause of _process_webcam_stream
_process_webcam_stream_except(st, as, t) ==
    LET s    == st.tasks[t].session
        st1  == [st EXCEPT !.sessions[s].status = "error"]
        send == _broadcast_to_websocket_clients(as, st1.sessions, st.tasks[t].stream_id)
    IN  IF send = None
        THEN _process_webcam_stream_finally(st1, t, "returned")
        ELSE [st1 EXCEPT !.tasks[t].pc = "error_send", !.tasks[t].send = send]

\* the loop body after the frame was broadcast: a classification that is due
\* reads self.classification_service.classify_image, which ClassificationService
\* does not have, and the AttributeError reaches the except clause
_process_webcam_stream_classify(st, as, t, due) ==
    IF due
    THEN _process_webcam_stream_except(st, as, t)
    ELSE [st EXCEPT !.tasks[t].pc = "sleep"]

\* the while loop from its condition to the next suspension; ret is what
\* cap.read() answers, and a camera delivers at most MaxFrames frames
_process_webcam_stream_loop(st, as, t, ret, due) ==
    LET task == st.tasks[t]
        s    == task.session
    IN  IF st.sessions[s].status # "active"
        THEN _process_webcam_stream_finally(st, t, "returned")
        ELSE IF ~ret \/ st.sessions[s].frame_count >= MaxFrames
             THEN _process_webcam_stream_finally(st, t, "returned")
             ELSE LET st1  == [st EXCEPT !.sessions[s].frame_count = @ + 1]
                      send == _broadcast_to_websocket_clients(as, st1.sessions, task.stream_id)
                  IN  IF send = None
                      THEN _process_webcam_stream_classify(st1, as, t, due)
                      ELSE [st1 EXCEPT !.tasks[t].pc = "frame_send",
                                       !.tasks[t].send = send]

\* the first run of the task: a task cancelled before it ran never enters the
\* coroutine; the session lookup is outside the try
_process_webcam_stream(st, as, t, opened, ret, due) ==
    IF st.tasks[t].cancel
    THEN [st EXCEPT !.tasks[t].pc = "done", !.tasks[t].cancel = FALSE,
                    !.tasks[t].outcome = "cancelled"]
    ELSE IF st.tasks[t].stream_id \notin DOMAIN as
         THEN [st EXCEPT !.tasks[t].pc = "done", !.tasks[t].outcome = "raised"]
         ELSE LET st1 == [st EXCEPT !.tasks[t].session = as[st.tasks[t].stream_id],
                                    !.tasks[t].cap = IF opened THEN "open" ELSE "unopened"]
              IN  IF opened
                  THEN _process_webcam_stream_loop(st1, as, t, ret, due)
                  ELSE _process_webcam_stream_except(st1, as, t)

\* the task wakes in client.send of a broadcast
_process_webcam_stream_sent(st, as, t, send_ok, due) ==
    LET task == st.tasks[t]
        st1  == [sessions |-> _broadcast_sent(st.sessions, task.send,
                                              task.cancel \/ ~send_ok),
                 tasks |-> [st.tasks EXCEPT ![t].cancel = FALSE, ![t].send = None]]
    IN  IF task.pc = "frame_send"
        THEN _process_webcam_stream_classify(st1, as, t, due)
        ELSE _process_webcam_stream_finally(st1, t, "returned")

\* the task wakes in asyncio.sleep
_process_webcam_stream_slept(st, as, t, ret, due) ==
    IF st.tasks[t].cancel
    THEN _process_webcam_stream_finally(st, t, "cancelled")
    ELSE _process_webcam_stream_loop(st, as, t, ret, due)

\* await task returns at once
await_task_skipped(ts, t) == TRUE

\* await stream_session["processing_task"] returns when the task is done
await_task(ts, t) == ts[t].pc = "done"

\* stop_stream: del self.active_streams[stream_id] and the return
stop_stream_removed(st) ==
    IF st.stop.stream_id \notin DOMAIN st.active_streams
    THEN [st EXCEPT !.stop.pc = "done", !.stop.success = FALSE]
    ELSE [st EXCEPT !.active_streams = [k \in DOMAIN st.active_streams \ {st.stop.stream_id} |-> st.active_streams[k]],
                    !.stop.pc = "done",
                    !.stop.success = TRUE]

\* stop_stream: the stop message and its broadcast
stop_stream_notified(st) ==
    LET send == _broadcast_to_websocket_clients(st.active_streams, st.sessions, st.stop.stream_id)
    IN  IF send = None
        THEN stop_stream_removed(st)
        ELSE [st EXCEPT !.stop.pc = "stop_send", !.stop.send = send]

\* stop_stream after await task: CancelledError is passed over, any other
\* exception of the task reaches except Exception
stop_stream_awaited(st) ==
    IF st.tasks[st.stop.task.some].outcome = "raised"
    THEN [st EXCEPT !.stop.pc = "done", !.stop.success = FALSE]
    ELSE stop_stream_notified(st)

\* stop_stream from its call to its first suspension
stop_stream(st) ==
    IF st.stop.stream_id \notin DOMAIN st.active_streams
    THEN [st EXCEPT !.stop.pc = "done", !.stop.success = FALSE]
    ELSE LET s   == st.active_streams[st.stop.stream_id]
             pt  == st.sessions[s].processing_task
             st1 == [st EXCEPT !.sessions[s].status = "stopping", !.stop.session = s]
         IN  IF pt = None
             THEN stop_stream_notified(st1)
             ELSE LET st2 == [st1 EXCEPT !.tasks[pt.some].cancel = (st.tasks[pt.some].pc # "done"),
                                         !.stop.task = pt,
                                         !.stop.was = [pc |-> st.tasks[pt.some].pc,
                                                       cap |-> st.tasks[pt.some].cap]]
                  IN  IF await_task(st2.tasks, pt.some)
                      THEN stop_stream_awaited(st2)
                      ELSE [st2 EXCEPT !.stop.pc = "await_task"]

InitStream ==
    /\ Constructed
    /\ monetization_cache = [enabled |-> TRUE, redis_client |-> FALSE]
    /\ cache_service = [enabled |-> TRUE, redis_client |-> FALSE]
    /\ subscriptions = StoredSubscriptions(0)

\* a session is created whatever the number of sessions
create_stream_session_uncapped(as, ss, stream_id) ==
    IF stream_id \in DOMAIN as
    THEN [success |-> FALSE, active_streams |-> as, sessions |-> ss]
    ELSE [success |-> TRUE,
          active_streams |-> (stream_id :> (Len(ss) + 1)) @@ as,
          sessions |-> Append(ss, NewSession(stream_id))]

\* create_stream_session: what it returns and what it leaves
create_stream_session(as, ss, stream_id) ==
    IF Cardinality(DOMAIN as) >= max_concurrent_streams
    THEN [success |-> FALSE, active_streams |-> as, sessions |-> ss]
    ELSE IF stream_id \in DOMAIN as
         THEN [success |-> FALSE, active_streams |-> as, sessions |-> ss]
         ELSE [success |-> TRUE,
               active_streams |-> (stream_id :> (Len(ss) + 1)) @@ as,
               sessions |-> Append(ss, NewSession(stream_id))]

\* start_webcam_stream: what it returns and what it leaves
start_webcam_stream(as, ss, ts, stream_id) ==
    IF stream_id \notin DOMAIN as
    THEN [success |-> FALSE, sessions |-> ss, tasks |-> ts]
    ELSE [success |-> TRUE,
          sessions |-> [ss EXCEPT ![as[stream_id]].processing_task = Some(Len(ts) + 1),
                                  ![as[stream_id]].status = "active"],
          tasks |-> Append(ts, NewTask(stream_id))]

\* one call of create_stream_session
CreateStreamSession(stream_id) ==
    /\ StreamCalls < MaxStreamCalls
    /\ \E r \in {create_stream_session(active_streams, sessions, stream_id)} :
          /\ active_streams' = r.active_streams
          /\ sessions' = r.sessions
    /\ UNCHANGED << tasks, stops, last, non_stream_vars >>

\* one call of start_webcam_stream
StartWebcamStream(stream_id) ==
    /\ StreamCalls < MaxStreamCalls
    /\ \E r \in {start_webcam_stream(active_streams, sessions, tasks, stream_id)} :
          /\ sessions' = r.sessions
          /\ tasks' = r.tasks
    /\ UNCHANGED << active_streams, stops, last, non_stream_vars >>

\* one call of add_websocket_client
AddWebsocketClient(stream_id, websocket) ==
    /\ IF stream_id \notin DOMAIN active_streams
       THEN UNCHANGED sessions
       ELSE sessions' = [sessions EXCEPT
                ![active_streams[stream_id]].websocket_clients = @ \cup {websocket}]
    /\ UNCHANGED << active_streams, tasks, stops, last, non_stream_vars >>

\* the event loop runs a task for the first time
TaskStarts(t, opened, ret, due) ==
    /\ tasks[t].pc = "created"
    /\ \E st \in {_process_webcam_stream([sessions |-> sessions, tasks |-> tasks], active_streams, t, opened, ret, due)} :
          /\ sessions' = st.sessions
          /\ tasks' = st.tasks
    /\ UNCHANGED << active_streams, stops, last, non_stream_vars >>

\* the event loop resumes a task that waits in client.send
TaskSent(t, send_ok, due) ==
    /\ tasks[t].pc \in {"frame_send", "error_send"}
    /\ \E st \in {_process_webcam_stream_sent([sessions |-> sessions, tasks |-> tasks], active_streams, t, send_ok, due)} :
          /\ sessions' = st.sessions
          /\ tasks' = st.tasks
    /\ UNCHANGED << active_streams, stops, last, non_stream_vars >>

\* the event loop resumes a task that waits in asyncio.sleep
TaskSlept(t, ret, due) ==
    /\ tasks[t].pc = "sleep"
    /\ \E st \in {_process_webcam_stream_slept([sessions |-> sessions, tasks |-> tasks], active_streams, t, ret, due)} :
          /\ sessions' = st.sessions
          /\ tasks' = st.tasks
    /\ UNCHANGED << active_streams, stops, last, non_stream_vars >>

\* a call of stop_stream, up to its first suspension or its return
StopStream(stream_id) ==
    /\ StreamCalls < MaxStreamCalls
    /\ \E st \in {stop_stream([active_streams |-> active_streams, sessions |-> sessions, tasks |-> tasks, stop |-> NewStop(stream_id)])} :
          /\ active_streams' = st.active_streams
          /\ sessions' = st.sessions
          /\ tasks' = st.tasks
          /\ stops' = Append(stops, st.stop)
    /\ UNCHANGED << last, non_stream_vars >>

\* stop_stream resumes when the task it awaits is done
StopAwaited(c) ==
    /\ stops[c].pc = "await_task"
    /\ await_task(tasks, stops[c].task.some)
    /\ \E st \in {stop_stream_awaited([active_streams |-> active_streams, sessions |-> sessions, tasks |-> tasks, stop |-> stops[c]])} :
          /\ active_streams' = st.active_streams
          /\ sessions' = st.sessions
          /\ tasks' = st.tasks
          /\ stops' = [stops EXCEPT ![c] = st.stop]
    /\ UNCHANGED << last, non_stream_vars >>

\* stop_stream resumes in client.send of its broadcast
StopSent(c, send_ok) ==
    /\ stops[c].pc = "stop_send"
    /\ \E st \in {stop_stream_removed([active_streams |-> active_streams, sessions |-> _broadcast_sent(sessions, stops[c].send, ~send_ok), tasks |-> tasks, stop |-> [stops[c] EXCEPT !.send = None]])} :
          /\ active_streams' = st.active_streams
          /\ sessions' = st.sessions
          /\ tasks' = st.tasks
          /\ stops' = [stops EXCEPT ![c] = st.stop]
    /\ UNCHANGED << last, non_stream_vars >>

NextStream ==
    \/ \E id \in StreamIds : CreateStreamSession(id)
    \/ \E id \in StreamIds : StartWebcamStream(id)
    \/ \E id \in StreamIds, ws \in Clients : AddWebsocketClient(id, ws)
    \/ \E t \in DOMAIN tasks, opened \in BOOLEAN, ret \in BOOLEAN, due \in BOOLEAN : TaskStarts(t, opened, ret, due)
    \/ \E t \in DOMAIN tasks, ok \in BOOLEAN, due \in BOOLEAN : TaskSent(t, ok, due)
    \/ \E t \in DOMAIN tasks, ret \in BOOLEAN, due \in BOOLEAN : TaskSlept(t, ret, due)
    \/ \E id \in StreamIds : StopStream(id)
    \/ \E c \in DOMAIN stops : StopAwaited(c)
    \/ \E c \in DOMAIN stops, ok \in BOOLEAN : StopSent(c, ok)

SpecStream == InitStream /\ [][NextStream]_vars

\* stop_stream call c has returned success and had found a processing task
StoppedWithTask(c) ==
    /\ stops[c].pc = "done"
    /\ stops[c].success
    /\ stops[c].task # None

\* the task a successful stop_stream cancelled is done and holds no capture
StoppedTaskEnded ==
    \A c \in DOMAIN stops :
        StoppedWithTask(c) =>
            /\ tasks[stops[c].task.some].pc = "done"
            /\ tasks[stops[c].task.some].cap \in {"none", "released"}

\* the step in which such a stop_stream returns leaves its stream_id out of
\* active_streams
StoppedStreamRemoved ==
    \A c \in DOMAIN stops' :
        (/\ stops'[c].pc = "done"
         /\ stops'[c].success
         /\ stops'[c].task # None
         /\ (c \in DOMAIN stops => stops[c].pc # "done")) =>
            stops'[c].stream_id \notin DOMAIN active_streams'

\* C20: when stop_stream(stream_id) returns success for a session whose
\* processing task was started, the task it cancelled and awaited is done,
\* the capture that task opened is released, and stream_id is not in
\* active_streams.
C20_StopStream == []StoppedTaskEnded /\ [][StoppedStreamRemoved]_vars

\* stop_stream found the task asleep in its loop with the capture open,
\* cancelled it and returned success
C20_Witness ==
    \E c \in DOMAIN stops :
        /\ StoppedWithTask(c)
        /\ stops[c].was = [pc |-> "sleep", cap |-> "open"]
        /\ tasks[stops[c].task.some].outcome = "cancelled"
        /\ tasks[stops[c].task.some].cap = "released"
        /\ stops[c].stream_id \notin DOMAIN active_streams

(***************************************************************************)
(* The cost of one logged request.                                         *)
(***************************************************************************)
MaxCostCalls == 2

\* the six priced service types and one that the pricing table does not have
ServiceTypes == DOMAIN ServicePricing \cup {"text_classification"}

CostInputs ==
    { [service_type |-> s, endpoint |-> "/api/v1/classify", request_size |-> z,
       processing_time |-> p, success |-> TRUE] :
         s \in ServiceTypes,
         z \in {LARGE_REQUEST, LARGE_REQUEST + 1},
         p \in {LONG_PROCESSING, LONG_PROCESSING + 1} }

LogPricedUsage(k, u) ==
    /\ Len(usage_logs) < MaxCostCalls
    /\ LogApiUsage(k, u)

NextCost ==
    \E k \in {"ak_live", "ak_unknown"}, u \in CostInputs : LogPricedUsage(k, u)

SpecCost == InitLog /\ [][NextCost]_vars

\* m of the claim, in hundredths: 1, times 1.5 over 5 seconds, times 1.2 over
\* 1048576 bytes
StatedMultiplier(request_size, processing_time) ==
    ((IF processing_time > 50 THEN 15 ELSE 10)
        * (IF request_size > 1048576 THEN 12 ELSE 10))

\* base_cost * complexity_multiplier * m in thousandths, 1 * 1.0 * m for a
\* service type the pricing table does not have
StatedCost(service_type, request_size, processing_time) ==
    IF service_type \in DOMAIN ServicePricing
    THEN ServicePricing[service_type].base_cost
             * ServicePricing[service_type].complexity_multiplier
             * StatedMultiplier(request_size, processing_time)
    ELSE 1 * 10 * StatedMultiplier(request_size, processing_time)

Restart ==
    /\ last # Idle
    /\ last.op # "restart"
    /\ \E e \in BOOLEAN : cache_service' = [enabled |-> e, redis_client |-> FALSE]
    /\ last' = [op |-> "restart"]
    /\ UNCHANGED << now, ticks, redis, redis_up, monetization_cache, subscriptions,
                    api_keys, usage_logs, next_id, window, ledger, pc, loc,
                    service_vars, stream_vars, security_vars >>

NextKey ==
    \/ NextCache
    \/ Restart

SpecKey == InitCache /\ [][NextKey]_vars

\* no step changes the key of any image and model name
KeyKept ==
    \A i \in Images, m \in CachedModels :
        ClassificationCacheKey(md5(i), m)' = ClassificationCacheKey(md5(i), m)

USER_STATS_TTL == 600

UserIds == {1, 2}

UserStats == {[total_classifications |-> 1], [total_classifications |-> 2]}

\* str(user_id) of a natural number, as characters
RECURSIVE decimal(_)
decimal(n) ==
    IF n < 10
    THEN << << "0", "1", "2", "3", "4", "5", "6", "7", "8", "9" >>[n + 1] >>
    ELSE decimal(n \div 10) \o decimal(n % 10)

\* hashlib.md5(key_data.encode()).hexdigest() of the key data that occur
hexdigest(key_data) ==
    CASE key_data = << "u", "s", "e", "r", "_", "s", "t", "a", "t", "s", ":", "1" >> ->
           << "1", "1", "e", "8", "7", "6", "4", "1", "3", "0", "a", "7", "c", "e",
             "f", "b", "9", "4", "f", "4", "e", "a", "1", "d", "9", "9",
             "b", "6", "d", "9", "2", "b" >>
      [] key_data = << "u", "s", "e", "r", "_", "s", "t", "a", "t", "s", ":", "2" >> ->
           << "0", "6", "6", "a", "a", "5", "f", "b", "8", "e", "2", "2", "3", "4",
             "e", "d", "d", "6", "e", "9", "7", "e", "6", "f", "6", "e",
             "b", "7", "e", "c", "e", "a" >>

\* CacheService._generate_key("user_stats", str(user_id))
UserStatsKey(user_id) ==
    << "a", "i", "_", "s", "e", "r", "v", "i", "c", "e", ":" >>
        \o hexdigest(<< "u", "s", "e", "r", "_", "s", "t", "a", "t", "s" >> \o << ":" >> \o decimal(user_id))

\* f"ai_service:*user_stats*{user_id}*"
UserStatsPattern(user_id) ==
    << "a", "i", "_", "s", "e", "r", "v", "i", "c", "e", ":", "*", "u", "s", "e", "r", "_", "s", "t", "a", "t", "s", "*" >> \o decimal(user_id) \o << "*" >>

\* the glob match of Redis KEYS: * stands for any characters, every other
\* character of these patterns for itself
RECURSIVE glob_match(_, _)
glob_match(pattern, key) ==
    IF pattern = << >>
    THEN key = << >>
    ELSE IF Head(pattern) = "*"
         THEN \/ glob_match(Tail(pattern), key)
              \/ key # << >> /\ glob_match(pattern, Tail(key))
         ELSE /\ key # << >>
              /\ Head(key) = Head(pattern)
              /\ glob_match(Tail(pattern), Tail(key))

\* redis_client.keys(pattern)
RedisKeys(store, pattern) ==
    {k \in DOMAIN store : store[k].exp > now /\ glob_match(pattern, k)}

\* redis_client.delete(*keys)
RedisDelete(store, keys) == [k \in DOMAIN store \ keys |-> store[k]]

\* CacheService.cache_user_stats: the Redis contents after the call
cache_user_stats(store, user_id, stats) ==
    CacheSet(cache_service, store, UserStatsKey(user_id), stats, USER_STATS_TTL)

\* CacheService.get_cached_user_stats
get_cached_user_stats(store, user_id) ==
    CacheGet(cache_service, store, UserStatsKey(user_id))

\* CacheService.invalidate_user_cache: what it returns and the Redis contents
invalidate_user_cache(store, user_id) ==
    IF ~cache_service.enabled \/ ~cache_service.redis_client
    THEN [res |-> FALSE, redis |-> store]
    ELSE IF ~redis_up
         THEN [res |-> FALSE, redis |-> store]
         ELSE [res |-> TRUE,
               redis |-> RedisDelete(store, RedisKeys(store, UserStatsPattern(user_id)))]

\* one call of cache_user_stats; puts observes, per user, the stats cached
\* last and whether an invalidation has succeeded since
CacheUserStats(user_id, stats) ==
    /\ next_id <= MaxPuts
    /\ next_id' = next_id + 1
    /\ redis' = cache_user_stats(redis, user_id, stats)
    /\ puts' = IF CacheSetDone(cache_service)
               THEN (user_id :> [stats |-> stats, invalidated |-> FALSE]) @@ puts
               ELSE puts
    /\ last' = [op |-> "cache_user_stats", user_id |-> user_id,
                res |-> CacheSetDone(cache_service)]
    /\ UNCHANGED << now, ticks, redis_up, monetization_cache, cache_service,
                    subscriptions, api_keys, usage_logs, window, ledger, pc, loc,
                    frameworks, settings, classification_service, stream_vars, security_vars >>

\* one call of get_cached_user_stats
GetCachedUserStats(user_id) ==
    /\ last' = [op |-> "get_cached_user_stats", user_id |-> user_id,
                res |-> get_cached_user_stats(redis, user_id)]
    /\ UNCHANGED << now, ticks, redis, redis_up, monetization_cache, cache_service,
                    subscriptions, api_keys, usage_logs, next_id, window, ledger,
                    pc, loc, service_vars, stream_vars, security_vars >>

\* one call of invalidate_user_cache
InvalidateUserCache(user_id) ==
    /\ \E r \in {invalidate_user_cache(redis, user_id)} :
          /\ redis' = r.redis
          /\ puts' = IF r.res /\ user_id \in DOMAIN puts
                     THEN [puts EXCEPT ![user_id].invalidated = TRUE]
                     ELSE puts
          /\ last' = [op |-> "invalidate_user_cache", user_id |-> user_id,
                      res |-> r.res]
    /\ UNCHANGED << now, ticks, redis_up, monetization_cache, cache_service,
                    subscriptions, api_keys, usage_logs, next_id, window, ledger,
                    pc, loc, frameworks, settings, classification_service,
                    stream_vars, security_vars >>

NextUserCache ==
    \/ ConnectCacheService
    \/ \E d \in Advances : Tick(d)
    \/ RedisFail
    \/ RedisRecover
    \/ \E u \in UserIds, s \in UserStats : CacheUserStats(u, s)
    \/ \E u \in UserIds : GetCachedUserStats(u)
    \/ \E u \in UserIds : InvalidateUserCache(u)

SpecUserCache == InitCache /\ [][NextUserCache]_vars

\* C23: once invalidate_user_cache(u) has returned True after
\* cache_user_stats(u, s), get_cached_user_stats(u) returns None until stats
\* are cached for u again.
C23_InvalidatedStatsGone ==
    \A u \in DOMAIN puts :
        puts[u].invalidated => get_cached_user_stats(redis, u) = None

\* invalidate_user_cache(u) has returned True and get_cached_user_stats(u)
\* still answers the stats cached before
C23_StatsSurvive ==
    /\ last.op = "get_cached_user_stats"
    /\ last.user_id \in DOMAIN puts
    /\ puts[last.user_id].invalidated
    /\ last.res = puts[last.user_id].stats

(***************************************************************************)
(* The capacity of the stream processor: sessions are created up to        *)
(* max_concurrent_streams while streams are started and stopped.           *)
(***************************************************************************)
MaxCapacityCalls == 8

\* the sessions that four create_stream_session calls have left
OpenedIds == << "stream_1", "stream_2", "stream_3", "stream_4" >>

\* the ids of the calls that follow
CapacityIds == {"stream_4", "stream_5", "stream_6"}

\* four sessions are open, nothing was started
InitCapacity ==
    /\ ServiceConstructed
    /\ now = 0
    /\ ticks = 0
    /\ redis = << >>
    /\ redis_up = TRUE
    /\ api_keys = StoredApiKeys
    /\ usage_logs = << >>
    /\ next_id = 1
    /\ last = Idle
    /\ window = [k \in ApiKeyValues |-> NoWindow]
    /\ ledger = << >>
    /\ pc = [p \in 1 .. MaxProcs |-> "idle"]
    /\ loc = [p \in 1 .. MaxProcs |-> None]
    /\ monetization_cache = [enabled |-> TRUE, redis_client |-> FALSE]
    /\ cache_service = [enabled |-> TRUE, redis_client |-> FALSE]
    /\ subscriptions = StoredSubscriptions(0)
    /\ sessions = [i \in 1 .. Len(OpenedIds) |-> NewSession(OpenedIds[i])]
    /\ active_streams = [id \in Range(OpenedIds) |->
                            CHOOSE i \in 1 .. Len(OpenedIds) : OpenedIds[i] = id]
    /\ tasks = << >>
    /\ stops = << >>
    /\ SecurityConstructed

\* one call of create_stream_session, its return value observed
CreateSession(stream_id) ==
    /\ StreamCalls < MaxCapacityCalls
    /\ \E r \in {create_stream_session(active_streams, sessions, stream_id)} :
          /\ active_streams' = r.active_streams
          /\ sessions' = r.sessions
          /\ last' = [op |-> "create_stream_session", stream_id |-> stream_id,
                      success |-> r.success,
                      existed |-> Cardinality(DOMAIN active_streams),
                      present |-> stream_id \in DOMAIN active_streams]
    /\ UNCHANGED << tasks, stops, non_stream_vars >>

\* one call of start_webcam_stream
StartSession(stream_id) ==
    /\ StreamCalls < MaxCapacityCalls
    /\ \E r \in {start_webcam_stream(active_streams, sessions, tasks, stream_id)} :
          /\ sessions' = r.sessions
          /\ tasks' = r.tasks
    /\ last' = [op |-> "start_webcam_stream"]
    /\ UNCHANGED << active_streams, stops, non_stream_vars >>

\* a call of stop_stream, up to its first suspension or its return
StopSession(stream_id) ==
    /\ StreamCalls < MaxCapacityCalls
    /\ \E st \in {stop_stream([active_streams |-> active_streams, sessions |-> sessions, tasks |-> tasks, stop |-> NewStop(stream_id)])} :
          /\ active_streams' = st.active_streams
          /\ sessions' = st.sessions
          /\ tasks' = st.tasks
          /\ stops' = Append(stops, st.stop)
    /\ last' = [op |-> "stop_stream"]
    /\ UNCHANGED non_stream_vars

\* a task or a suspended stop_stream runs on
StreamRuns ==
    /\ \/ \E t \in DOMAIN tasks, opened \in BOOLEAN, ret \in BOOLEAN : TaskStarts(t, opened, ret, FALSE)
       \/ \E t \in DOMAIN tasks, ret \in BOOLEAN : TaskSlept(t, ret, FALSE)
       \/ \E c \in DOMAIN stops : StopAwaited(c)

NextCapacity ==
    \/ \E id \in CapacityIds : CreateSession(id)
    \/ \E id \in CapacityIds : StartSession(id)
    \/ \E id \in CapacityIds : StopSession(id)
    \/ StreamRuns

SpecCapacity == InitCapacity /\ [][NextCapacity]_vars

\* active_streams holds at most max_concurrent_streams sessions, each under
\* its own id
WithinCapacity ==
    /\ Cardinality(DOMAIN active_streams) <= 5
    /\ \A a \in DOMAIN active_streams :
          /\ sessions[active_streams[a]].stream_id = a
          /\ \A b \in DOMAIN active_streams : a # b => active_streams[a] # active_streams[b]

\* a create_stream_session call made with 5 sessions or with a present id
\* fails and leaves active_streams as it was
RefusedCreateKeeps ==
    (/\ last' # last
     /\ last'.op = "create_stream_session"
     /\ (last'.existed >= 5 \/ last'.present)) =>
        /\ ~last'.success
        /\ active_streams' = active_streams

\* C24: active_streams never holds more than max_concurrent_streams (5)
\* sessions, each under its own id, whatever the interleaving of
\* create_stream_session, start and stop_stream calls; a
\* create_stream_session call made when 5 sessions exist or with an id
\* already present returns success=False and leaves active_streams unchanged.
C24_StreamCapacity == []WithinCapacity /\ [][RefusedCreateKeeps]_vars

\* the sixth session was refused with five in place
C24_Witness ==
    /\ last.op = "create_stream_session"
    /\ ~last.success
    /\ ~last.present
    /\ last.existed = 5
    /\ Cardinality(DOMAIN active_streams) = 5

(***************************************************************************)
(* RateLimitMiddleware (middleware/security.py), the in-memory sliding     *)
(* window in front of every route.  Times are whole seconds.               *)
(***************************************************************************)
\* main.py 71 constructs the middleware with 60 and 1000; the model runs it
\* with small limits
CallsPerMinute == 2
CallsPerHour == 3
MaxDispatches == 6

MINUTE_WINDOW == 60
HOUR_WINDOW == 3600
cleanup_interval == 300

\* the paths dispatch passes on without a check (lines 121-122)
rate_limit_exempt(path) ==
    path \in {"/", "/health", "/api/v1/health"} \/ startswith(path, "/uploads")

\* str(user_id) of the user ids that occur
str_user_id(user_id) == CASE user_id = 1 -> "1" [] user_id = 2 -> "2"

\* self.minute_calls[client_id] read on a defaultdict(deque)
calls_of(d, client_id) == IF client_id \in DOMAIN d THEN d[client_id] ELSE << >>

\* lines 31-44; forwarded_for is the header split at its commas
_get_client_id(request) ==
    IF request.user_id # None /\ request.user_id.some # 0
    THEN "user_" \o str_user_id(request.user_id.some)
    ELSE IF request.forwarded_for # None /\ request.forwarded_for.some # << >>
         THEN "ip_" \o Head(request.forwarded_for.some)
         ELSE "ip_" \o OrElse(request.client, "unknown")

\* while calls and calls[0] < cutoff: calls.popleft()
RECURSIVE popleft_old(_, _)
popleft_old(calls, cutoff) ==
    IF calls # << >> /\ Head(calls) < cutoff
    THEN popleft_old(Tail(calls), cutoff)
    ELSE calls

\* lines 57-71: one of the two loops over the clients
clean_calls(d, cutoff) ==
    LET popped == [c \in DOMAIN d |-> popleft_old(d[c], cutoff)]
    IN  [c \in {x \in DOMAIN d : popped[x] # << >>} |-> popped[c]]

\* lines 46-73
_cleanup_old_entries(mc, hc, lc, current_time) ==
    IF current_time - lc < cleanup_interval
    THEN [minute_calls |-> mc, hour_calls |-> hc, last_cleanup |-> lc]
    ELSE [minute_calls |-> clean_calls(mc, current_time - MINUTE_WINDOW),
          hour_calls |-> clean_calls(hc, current_time - HOUR_WINDOW),
          last_cleanup |-> current_time]

\* a client is refused only once it is past the limit
_is_rate_limited_lenient(mc, hc, client_id, current_time) ==
    LET minute == popleft_old(calls_of(mc, client_id), current_time - MINUTE_WINDOW)
        hour == popleft_old(calls_of(hc, client_id), current_time - HOUR_WINDOW)
    IN  [info |-> IF Len(minute) > CallsPerMinute
                  THEN Some([limit_type |-> "per_minute", limit |-> CallsPerMinute,
                             reset_time |-> Head(minute) + MINUTE_WINDOW,
                             retry_after |-> Head(minute) + MINUTE_WINDOW - current_time])
                  ELSE IF Len(hour) > CallsPerHour
                  THEN Some([limit_type |-> "per_hour", limit |-> CallsPerHour,
                             reset_time |-> Head(hour) + HOUR_WINDOW,
                             retry_after |-> Head(hour) + HOUR_WINDOW - current_time])
                  ELSE None,
         minute_calls |-> (client_id :> minute) @@ mc,
         hour_calls |-> (client_id :> hour) @@ hc]

\* lines 75-110: the deques of the client are made on first use, lose their
\* entries older than the window, and are measured against the limits
_is_rate_limited(mc, hc, client_id, current_time) ==
    LET minute == popleft_old(calls_of(mc, client_id), current_time - MINUTE_WINDOW)
        hour == popleft_old(calls_of(hc, client_id), current_time - HOUR_WINDOW)
    IN  [info |-> IF Len(minute) >= CallsPerMinute
                  THEN Some([limit_type |-> "per_minute", limit |-> CallsPerMinute,
                             reset_time |-> Head(minute) + MINUTE_WINDOW,
                             retry_after |-> Head(minute) + MINUTE_WINDOW - current_time])
                  ELSE IF Len(hour) >= CallsPerHour
                  THEN Some([limit_type |-> "per_hour", limit |-> CallsPerHour,
                             reset_time |-> Head(hour) + HOUR_WINDOW,
                             retry_after |-> Head(hour) + HOUR_WINDOW - current_time])
                  ELSE None,
         minute_calls |-> (client_id :> minute) @@ mc,
         hour_calls |-> (client_id :> hour) @@ hc]

\* lines 112-116
_record_call(mc, hc, client_id, current_time) ==
    [minute_calls |-> (client_id :> Append(calls_of(mc, client_id), current_time)) @@ mc,
     hour_calls |-> (client_id :> Append(calls_of(hc, client_id), current_time)) @@ hc]

\* lines 146-160: the call is recorded, the request goes to call_next and
\* the response gets the rate limit headers
rate_limit_passed(checked, lc, client_id, current_time) ==
    LET rec == _record_call(checked.minute_calls, checked.hour_calls, client_id,
                            current_time)
    IN  [status |-> 200, call_next |-> TRUE, client_id |-> Some(client_id),
         limit_type |-> "none",
         remaining |-> Max(0, CallsPerMinute - Len(rec.minute_calls[client_id])),
         minute_calls |-> rec.minute_calls, hour_calls |-> rec.hour_calls,
         last_cleanup |-> lc]

\* lines 131-144: the 429 response, returned before _record_call
rate_limit_refused(checked, lc, client_id) ==
    [status |-> 429, call_next |-> FALSE, client_id |-> Some(client_id),
     limit_type |-> checked.info.some.limit_type,
     remaining |-> 0,
     minute_calls |-> checked.minute_calls, hour_calls |-> checked.hour_calls,
     last_cleanup |-> lc]

\* RateLimitMiddleware.dispatch, lines 118-160; nothing awaits between the
\* check and the record
rate_limit_dispatch(mc, hc, lc, request, current_time) ==
    IF rate_limit_exempt(request.path)
    THEN [status |-> 200, call_next |-> TRUE, client_id |-> None,
          limit_type |-> "none", remaining |-> 0,
          minute_calls |-> mc, hour_calls |-> hc, last_cleanup |-> lc]
    ELSE LET cleaned == _cleanup_old_entries(mc, hc, lc, current_time)
             client_id == _get_client_id(request)
             checked == _is_rate_limited(cleaned.minute_calls, cleaned.hour_calls,
                                         client_id, current_time)
         IN  IF checked.info # None
             THEN rate_limit_refused(checked, cleaned.last_cleanup, client_id)
             ELSE rate_limit_passed(checked, cleaned.last_cleanup, client_id,
                                    current_time)

LimitedRequest(path, user_id, client, forwarded_for) ==
    [path |-> path, user_id |-> user_id, client |-> client,
     forwarded_for |-> forwarded_for]

LimitedRequests ==
    {LimitedRequest("/api/v1/classify", None, Some("10.0.0.1"), None),
     LimitedRequest("/api/v1/classify", None, Some("10.0.0.1"),
                    Some(<< "10.0.0.2", "10.0.0.9" >>)),
     LimitedRequest("/api/v1/models", Some(1), Some("10.0.0.1"), None),
     LimitedRequest("/uploads/a.png", None, None, None)}

\* the times of the requests of a client that went to call_next between
\* from and to, both included
passed_between(client_id, from, to) ==
    LET times == calls_of(forwarded, client_id)
    IN  Cardinality({i \in 1 .. Len(times) : times[i] >= from /\ times[i] <= to})

\* one whole request through RateLimitMiddleware.dispatch
RateLimitDispatch(request) ==
    /\ next_id + ticks <= MaxDispatches
    /\ \E r \in {rate_limit_dispatch(minute_calls, hour_calls, last_cleanup,
                                     request, now)} :
          /\ minute_calls' = r.minute_calls
          /\ hour_calls' = r.hour_calls
          /\ last_cleanup' = r.last_cleanup
          /\ forwarded' =
                IF r.call_next /\ r.client_id # None
                THEN (r.client_id.some :>
                         Append(calls_of(forwarded, r.client_id.some), now))
                     @@ forwarded
                ELSE forwarded
          /\ last' = [op |-> "dispatch", path |-> request.path,
                      client_id |-> r.client_id, status |-> r.status,
                      call_next |-> r.call_next, limit_type |-> r.limit_type,
                      remaining |-> r.remaining]
    /\ next_id' = next_id + 1
    /\ UNCHANGED << now, ticks, redis, redis_up, monetization_cache, cache_service,
                    subscriptions, api_keys, usage_logs, window, ledger, pc, loc,
                    service_vars, stream_vars, auth_vars, redis_writable >>

LimiterSteps == {MINUTE_WINDOW, MINUTE_WINDOW + 1, HOUR_WINDOW}

\* time passes between two requests
LimiterTick(d) == next_id + ticks <= MaxDispatches /\ Tick(d)

NextLimiter ==
    \/ \E request \in LimitedRequests : RateLimitDispatch(request)
    \/ \E d \in LimiterSteps : LimiterTick(d)

SpecLimiter == InitStream /\ [][NextLimiter]_vars

\* no 60 seconds hold more than calls_per_minute passed requests of a client
\* and no 3600 seconds more than calls_per_hour
WithinWindows ==
    \A c \in DOMAIN forwarded :
       \A i \in 1 .. Len(forwarded[c]) :
          /\ passed_between(c, forwarded[c][i], forwarded[c][i] + 60) <= CallsPerMinute
          /\ passed_between(c, forwarded[c][i], forwarded[c][i] + 3600) <= CallsPerHour

is_suffix(s, t) == \E i \in 0 .. Len(t) : s = SubSeq(t, i + 1, Len(t))

\* a request to a checked path of a client that has used up a window is
\* answered 429, does not reach call_next and adds no entry to a deque
OverLimitRefused ==
    (/\ next_id' # next_id
     /\ last'.op = "dispatch"
     /\ last'.client_id # None
     /\ \/ passed_between(last'.client_id.some, now - 60, now) >= CallsPerMinute
        \/ passed_between(last'.client_id.some, now - 3600, now) >= CallsPerHour) =>
        /\ last'.status = 429
        /\ ~last'.call_next
        /\ forwarded' = forwarded
        /\ is_suffix(minute_calls'[last'.client_id.some],
                     calls_of(minute_calls, last'.client_id.some))
        /\ is_suffix(hour_calls'[last'.client_id.some],
                     calls_of(hour_calls, last'.client_id.some))

\* C25: for every client id and every sequence of requests to non-exempt
\* paths, at most calls_per_minute requests are passed downstream within any
\* 60 seconds and at most calls_per_hour within any 3600 seconds; a request
\* over either limit gets HTTP 429, is not passed on and is not recorded in
\* either window.
C25_SlidingWindow == []WithinWindows /\ [][OverLimitRefused]_vars

\* a client at the hourly limit, with room in its minute, was refused
C25_Witness ==
    /\ last.op = "dispatch"
    /\ last.status = 429
    /\ last.limit_type = "per_hour"
    /\ Len(calls_of(forwarded, last.client_id.some)) = CallsPerHour
    /\ Len(calls_of(minute_calls, last.client_id.some)) < CallsPerMinute

(***************************************************************************)
(* The key classify looks up and the key it stores under.                  *)
(***************************************************************************)
\* the key of the lookup of the call c (line 252) and the key its result was
\* stored under (lines 327-332)
LookupKey(c) == ClassificationCacheKey(md5(c.image), ResolvedModel(c))
StoreKey(c) == ClassificationCacheKey(md5(c.image), c.result.model_used)

\* the call c missed, classified and wrote its result to the cache
MissStored(c) ==
    /\ c.use_cache
    /\ ~c.raised
    /\ ~c.result.from_cache
    /\ c.stored = Some(TRUE)

\* C26: for every model_name passed to classify(use_cache=True), registered
\* or not, the cache entry written after a miss is stored under the same
\* (fingerprint, model name) key that the call looked up, so an identical
\* call within the TTL is a cache hit.
C26_LookupKeyIsStoreKey ==
    /\ (LastClassify /\ MissStored(last)) => StoreKey(last) = LookupKey(last)
    /\ (/\ LastClassify
        /\ last.prev # None
        /\ Identical(last, last.prev)
        /\ MissStored(last.prev)
        /\ last.available
        /\ last.at < last.prev.at + CLASSIFICATION_TTL) =>
           /\ ~last.raised
           /\ last.result.from_cache

\* a call for an unregistered model name missed and wrote its result; the
\* same call, made again at once, missed again
C26_MissesAgain ==
    /\ LastClassify
    /\ last.prev # None
    /\ Identical(last, last.prev)
    /\ last.model_name = Some("no_such_model")
    /\ MissStored(last.prev)
    /\ MissStored(last)
    /\ last.at = last.prev.at
    /\ StoreKey(last) # LookupKey(last)

(***************************************************************************)
(* check_rate_limits when the counter store fails.  CacheService.get and   *)
(* CacheService.set catch every exception of the Redis client (63-72,      *)
(* 79-90): a failed get reads as no counter, a failed set writes nothing.  *)
(***************************************************************************)
\* Redis starts to refuse write commands (out of memory, read-only replica)
\* while it goes on answering reads
RedisWritesFail ==
    /\ redis_writable
    /\ redis_writable' = FALSE
    /\ UNCHANGED << now, ticks, redis, redis_up, monetization_cache, cache_service,
                    subscriptions, api_keys, usage_logs, next_id, last,
                    window, ledger, pc, loc,
                    service_vars, stream_vars, limiter_vars, auth_vars >>

RedisWritesRecover ==
    /\ ~redis_writable
    /\ redis_writable' = TRUE
    /\ UNCHANGED << now, ticks, redis, redis_up, monetization_cache, cache_service,
                    subscriptions, api_keys, usage_logs, next_id, last,
                    window, ledger, pc, loc,
                    service_vars, stream_vars, limiter_vars, auth_vars >>

\* the calls of a valid key, with every failure of the store
NextFailOpen ==
    \/ \E d \in Advances : Tick(d)
    \/ RedisFail
    \/ RedisRecover
    \/ RedisWritesFail
    \/ RedisWritesRecover
    \/ ConnectMonetizationCache
    \/ CheckRateLimits("ak_live")

SpecFailOpen == Init /\ [][NextFailOpen]_vars

\* C27 as stated: whenever the counter store is disabled, not connected, or
\* raises on get or set, check_rate_limits returns allowed=True for every
\* valid API key, however many requests that key has already made in the
\* current minute and hour.
C27_FailOpenAsStated ==
    (LastValidCheck /\ (~last.available \/ ~last.writable)) => last.res.allowed

\* C27 amended: whenever the counter store is disabled, not connected, or
\* raises on get, check_rate_limits returns allowed=True for every valid API
\* key, however many requests that key has already made in the current
\* minute and hour; when the store answers get and raises on set only, the
\* call is decided by the stored counters, which no longer advance.
C27_FailOpen ==
    /\ (LastValidCheck /\ ~last.available) => last.res.allowed
    /\ (LastValidCheck /\ last.available /\ ~last.writable) =>
          /\ last.res.allowed <=>
                (last.minute_before < PerMinute /\ last.hour_before < PerHour)
          /\ last.minute_after = last.minute_before
          /\ last.hour_after = last.hour_before

\* a key that had used up its minute was allowed again while the store did
\* not answer
C27_Witness ==
    /\ LastValidCheck
    /\ ~last.available
    /\ last.prior_minute >= PerMinute
    /\ last.minute_before >= PerMinute
    /\ last.res.allowed

(***************************************************************************)
(* The processing tasks of one stream.                                     *)
(***************************************************************************)
\* the tasks created for the stream that have not finished
UnfinishedTasks(stream_id) ==
    {t \in DOMAIN tasks : tasks[t].stream_id = stream_id /\ tasks[t].pc # "done"}

\* C28: after any sequence of start_webcam_stream, process_rtmp_stream and
\* stop_stream calls, every session has at most one unfinished processing
\* task, so that the single task cancelled by stop_stream is the only task
\* still running for that stream.
C28_OneTaskPerStream ==
    \A stream_id \in StreamIds : Cardinality(UnfinishedTasks(stream_id)) <= 1

\* a stop_stream call has returned success, the task it cancelled is done,
\* and a task started earlier for the same session still holds the camera
C28_TaskOutlivesStop ==
    \E c \in DOMAIN stops, t \in DOMAIN tasks :
        /\ StoppedWithTask(c)
        /\ tasks[stops[c].task.some].pc = "done"
        /\ t < stops[c].task.some
        /\ tasks[t].session = stops[c].session
        /\ tasks[t].pc # "done"
        /\ tasks[t].cap = "open"
        /\ stops[c].stream_id \notin DOMAIN active_streams

(***************************************************************************)
(* Sessions and refresh tokens (utils/auth.py, routers/auth.py).  Every    *)
(* handler is synchronous between its query and its commit.  The n-th      *)
(* value of secrets.token_urlsafe(32) is the token n: the values do not    *)
(* repeat.                                                                 *)
(***************************************************************************)
MaxTokens == 3

REFRESH_TOKEN_EXPIRE_DAYS == 7
SECONDS_PER_DAY == 86400

AccountIds == {1}
RefreshTokens == 1 .. MaxTokens

\* datetime.now(timezone.utc) + timedelta(days=settings.REFRESH_TOKEN_EXPIRE_DAYS)
refresh_expiry(current_time) ==
    current_time + REFRESH_TOKEN_EXPIRE_DAYS * SECONDS_PER_DAY

\* .first() of a query on user_sessions: the row found, or 0
first_row(ss, rows) ==
    IF rows = {} THEN 0 ELSE CHOOSE i \in rows : \A j \in rows : i <= j

\* utils/auth.py 74-111: the user_sessions table after the call
create_user_session(ss, user_id, refresh_token, current_time) ==
    Append(ss, [id |-> Len(ss) + 1, user_id |-> user_id,
                refresh_token |-> refresh_token,
                expires_at |-> refresh_expiry(current_time),
                is_active |-> TRUE])

\* utils/auth.py 113-126
revoke_user_session(ss, refresh_token) ==
    LET session == first_row(ss, {i \in DOMAIN ss :
                                     /\ ss[i].refresh_token = refresh_token
                                     /\ ss[i].is_active})
    IN  IF session = 0
        THEN [success |-> FALSE, user_sessions |-> ss]
        ELSE [success |-> TRUE,
              user_sessions |-> [ss EXCEPT ![session].is_active = FALSE]]

\* a plausible slip: the session keeps its refresh token
refresh_access_token_unrotated(us, ss, refresh_token, new_refresh_token, current_time) ==
    LET session == first_row(ss, {i \in DOMAIN ss :
                                     /\ ss[i].refresh_token = refresh_token
                                     /\ ss[i].is_active
                                     /\ ss[i].expires_at > current_time})
    IN  IF session = 0
        THEN [result |-> None, user_sessions |-> ss]
        ELSE IF ss[session].user_id \notin DOMAIN us
        THEN [result |-> None, user_sessions |-> ss]
        ELSE IF ~us[ss[session].user_id].is_active
        THEN [result |-> None, user_sessions |-> ss]
        ELSE [result |-> Some([access_token |-> [user_id |-> ss[session].user_id],
                               refresh_token |-> new_refresh_token]),
              user_sessions |->
                  [ss EXCEPT ![session].expires_at = refresh_expiry(current_time)]]

\* utils/auth.py 138-167
refresh_access_token(us, ss, refresh_token, new_refresh_token, current_time) ==
    LET session == first_row(ss, {i \in DOMAIN ss :
                                     /\ ss[i].refresh_token = refresh_token
                                     /\ ss[i].is_active
                                     /\ ss[i].expires_at > current_time})
    IN  IF session = 0
        THEN [result |-> None, user_sessions |-> ss]
        ELSE IF ss[session].user_id \notin DOMAIN us
        THEN [result |-> None, user_sessions |-> ss]
        ELSE IF ~us[ss[session].user_id].is_active
        THEN [result |-> None, user_sessions |-> ss]
        ELSE [result |-> Some([access_token |-> [user_id |-> ss[session].user_id],
                               refresh_token |-> new_refresh_token]),
              user_sessions |->
                  [ss EXCEPT ![session].refresh_token = new_refresh_token,
                             ![session].expires_at = refresh_expiry(current_time)]]

Unchanged_auth ==
    UNCHANGED << now, ticks, redis, redis_up, monetization_cache, cache_service,
                 subscriptions, api_keys, usage_logs, window, ledger, pc, loc,
                 service_vars, stream_vars, limiter_vars, redis_writable >>

\* POST /register (routers/auth.py 74-131): a new active user and a session
RegisterUser(u) ==
    /\ u \notin DOMAIN users
    /\ next_id <= MaxTokens
    /\ users' = (u :> [is_active |-> TRUE]) @@ users
    /\ user_sessions' = create_user_session(user_sessions, u, next_id, now)
    /\ next_id' = next_id + 1
    /\ last' = [op |-> "create_user_session", refresh_token |-> next_id]
    /\ UNCHANGED spent
    /\ Unchanged_auth

\* POST /login (133-175) with the right password
LoginUser(u) ==
    /\ u \in DOMAIN users
    /\ users[u].is_active
    /\ next_id <= MaxTokens
    /\ user_sessions' = create_user_session(user_sessions, u, next_id, now)
    /\ next_id' = next_id + 1
    /\ last' = [op |-> "create_user_session", refresh_token |-> next_id]
    /\ UNCHANGED << users, spent >>
    /\ Unchanged_auth

\* POST /refresh (177-197): one whole call of refresh_access_token
RefreshToken(t) ==
    /\ \E r \in {refresh_access_token(users, user_sessions, t, next_id, now)} :
          /\ r.result # None => next_id <= MaxTokens
          /\ user_sessions' = r.user_sessions
          /\ next_id' = IF r.result # None THEN next_id + 1 ELSE next_id
          /\ spent' = IF r.result # None THEN spent \cup {t} ELSE spent
          /\ last' = [op |-> "refresh_access_token", refresh_token |-> t,
                      was_spent |-> t \in spent, result |-> r.result]
    /\ UNCHANGED users
    /\ Unchanged_auth

\* POST /logout (199-212): one whole call of revoke_user_session
LogoutUser(t) ==
    /\ \E r \in {revoke_user_session(user_sessions, t)} :
          /\ user_sessions' = r.user_sessions
          /\ spent' = IF r.success THEN spent \cup {t} ELSE spent
          /\ last' = [op |-> "revoke_user_session", refresh_token |-> t,
                      was_spent |-> t \in spent, success |-> r.success]
    /\ UNCHANGED << users, next_id >>
    /\ Unchanged_auth

\* DELETE /sessions/{session_id} (284-306) by the owner of the session
RevokeSession(session_id) ==
    /\ session_id \in DOMAIN user_sessions
    /\ user_sessions[session_id].is_active
    /\ user_sessions' = [user_sessions EXCEPT ![session_id].is_active = FALSE]
    /\ last' = [op |-> "revoke_session", session_id |-> session_id]
    /\ UNCHANGED << users, next_id, spent >>
    /\ Unchanged_auth

\* PUT /users/{user_id}/activate and /deactivate (320-363)
SetUserActive(u, active) ==
    /\ u \in DOMAIN users
    /\ users[u].is_active # active
    /\ users' = [users EXCEPT ![u].is_active = active]
    /\ UNCHANGED << user_sessions, next_id, spent, last >>
    /\ Unchanged_auth

\* the lifetime of a refresh token passes
AuthTick == Tick(REFRESH_TOKEN_EXPIRE_DAYS * SECONDS_PER_DAY)

NextAuth ==
    \/ \E u \in AccountIds : RegisterUser(u)
    \/ \E u \in AccountIds : LoginUser(u)
    \/ \E t \in RefreshTokens : RefreshToken(t)
    \/ \E t \in RefreshTokens : LogoutUser(t)
    \/ \E i \in 1 .. MaxTokens : RevokeSession(i)
    \/ \E u \in AccountIds, a \in BOOLEAN : SetUserActive(u, a)
    \/ AuthTick

SpecAuth == InitStream /\ [][NextAuth]_vars

\* C29: once refresh_access_token(t) has succeeded (rotating the session to
\* a new refresh token) or revoke_user_session(t) has succeeded, every later
\* refresh_access_token(t) returns None and every later
\* revoke_user_session(t) returns False.
C29_RefreshTokenSingleUse ==
    /\ (last.op = "refresh_access_token" /\ last.was_spent) => last.result = None
    /\ (last.op = "revoke_user_session" /\ last.was_spent) => ~last.success

\* a token that was rotated away is presented again while the session it
\* belonged to is active, unexpired and owned by an active user
C29_Witness ==
    /\ last.op = "refresh_access_token"
    /\ last.was_spent
    /\ last.result = None
    /\ \E i \in DOMAIN user_sessions :
          /\ user_sessions[i].is_active
          /\ user_sessions[i].expires_at > now
          /\ user_sessions[i].refresh_token > last.refresh_token
          /\ users[user_sessions[i].user_id].is_active
    /\ \A i \in DOMAIN user_sessions : i = 1

(***************************************************************************)
(* log_api_usage calls that fail.  api_keys is the memory of one worker    *)
(* process, loaded when it starts (line 58); the Redis cache is shared by  *)
(* every worker of the service.                                            *)
(***************************************************************************)
\* POST /api-key/generate (billing.py 150-183) served by another worker:
\* _generate_api_key (212-257) puts the new key of sub_1 in that worker's
\* api_keys and in the shared cache
PeerGeneratesApiKey ==
    /\ ApiKeyCacheKey("ak_peer") \notin DOMAIN redis
    /\ redis' = CacheSet([enabled |-> TRUE, redis_client |-> TRUE], redis,
                         ApiKeyCacheKey("ak_peer"),
                         json_dumps(KeyRecord("ak_peer", "u1", "sub_1", "active")),
                         API_KEY_TTL)
    /\ redis' # redis
    /\ UNCHANGED << now, ticks, redis_up, monetization_cache, cache_service,
                    subscriptions, api_keys, usage_logs, next_id, last,
                    window, ledger, pc, loc,
                    service_vars, stream_vars, security_vars >>

PeerKeys == {"ak_live", "ak_peer", "ak_revoked", "ak_unknown"}

NextPeer ==
    \/ NextWeek
    \/ ConnectMonetizationCache
    \/ PeerGeneratesApiKey
    \/ \E k \in PeerKeys, u \in UsageInputs : LogApiUsage(k, u)

SpecPeer == InitLog /\ [][NextPeer]_vars

\* the billing figures the claim names
BillingState ==
    << usage_logs,
       [sid \in DOMAIN subscriptions |->
           << subscriptions[sid].used_requests, subscriptions[sid].overage_requests >>],
       [k \in DOMAIN api_keys |->
           << api_keys[k].total_requests, api_keys[k].last_used >>] >>

\* a step that ends a log_api_usage call with success=False leaves the
\* billing figures as they were
FailedLogKeeps ==
    (last'.op = "log_api_usage" /\ ~Truthy(last'.res, "success")) =>
        BillingState' = BillingState

\* C30: whenever log_api_usage returns success=False (invalid or inactive
\* key, inactive or missing subscription, or an internal exception),
\* usage_logs, the subscription's used_requests and overage_requests, and
\* the key's total_requests and last_used are the same as before the call.
C30_FailedLogChangesNothing == [][FailedLogKeeps]_vars

\* the call for the key of the other worker returned success=False and left
\* an entry in usage_logs and a request on sub_1
C30_FailedCallCounted ==
    /\ last.op = "log_api_usage"
    /\ last.api_key = "ak_peer"
    /\ ~Truthy(last.res, "success")
    /\ Len(usage_logs) = 1
    /\ ledger = << >>
    /\ subscriptions["sub_1"].used_requests = 1
    /\ api_keys["ak_live"].total_requests = 0
====
